---- MODULE Spec2Model ----
(***************************************************************************)
(* Model of the eoka-agent action layer (AgentPage / Session), the         *)
(* observation script and the annotated screenshot.                        *)
(*                                                                         *)
(* The page is a flat document: a sequence of element nodes that are all   *)
(* children of <body>, in document order.  A node keeps its identity (nid) *)
(* when it is detached and re-attached.  Rust indices are 0-based, TLA+    *)
(* sequences 1-based: cache element with index i is elements[i + 1].       *)
(***************************************************************************)
EXTENDS Integers, Sequences, FiniteSets, TLC

VARIABLES
    kind,       \* which action-layer object drives the page: "AgentPage" | "Session"
    site,       \* which web site is being browsed (fixes the nodes its pages use)
    dom,        \* the attached nodes (nids) in document order
    elements,   \* the object's observation cache (Vec<InteractiveElement>)
    overlays,   \* number of #__eoka_overlay containers attached to <body>
    last,       \* the most recent call and what it returned / dispatched
    server,     \* the MCP server's Option<BrowserState>: browser, tab, unhealthy flag
    ret,        \* the value the most recent value-returning call produced
    pc          \* where the caller is inside wait_for_stable ("idle" when outside)

\* The variables outside the action layer; the action layer leaves them alone.
others == <<server, ret, pc>>

vars == <<kind, site, dom, elements, overlays, last, server, ret, pc>>

\* ---------------------------------------------------------------- bounds
\* Largest number of nodes attached to the document at once.
MaxDom == 2
\* Largest number of overlay containers the model lets pile up.
MaxOverlays == 2
\* Indices a caller passes to an index-based action: 0 .. MaxIndex.
MaxIndex == 1
\* Longest target string (in tokens) handed to Target::parse.
MaxTargetLen == 3

\* ------------------------------------------------------------- constants
\* compute_fingerprint hashes the first 50 bytes of the selector.
FingerprintSelectorLen == 50

\* ---------------------------------------------------------------- the page
\* An id of 50+ characters is written as a 49-character block followed by
\* one more character, so that "#" + block is exactly 50 bytes long.
NoId == <<>>
LongId1 == <<"P49", "1">>
LongId2 == <<"P49", "2">>

\* The nodes a page can hold.  nid = position in this tuple.
\*   hidden  : display:none / zero area (rejected by the observe script)
\*   options : option values of a <select>
\*   type    : the type attribute as the markup writes it ("" when absent)
\*   value   : the current value of a form element
PageNodes == <<
    [tag |-> "input",  id |-> NoId,    text |-> "A", hidden |-> FALSE, options |-> {},    type |-> "",         value |-> ""],
    [tag |-> "input",  id |-> NoId,    text |-> "B", hidden |-> FALSE, options |-> {},    type |-> "",         value |-> ""],
    [tag |-> "button", id |-> <<"x">>, text |-> "A", hidden |-> TRUE,  options |-> {},    type |-> "",         value |-> ""],
    [tag |-> "select", id |-> <<"x">>, text |-> "B", hidden |-> FALSE, options |-> {"r"}, type |-> "",         value |-> "r"],
    [tag |-> "button", id |-> <<"x">>, text |-> "B", hidden |-> FALSE, options |-> {},    type |-> "",         value |-> ""],
    [tag |-> "button", id |-> LongId1, text |-> "A", hidden |-> FALSE, options |-> {},    type |-> "",         value |-> ""],
    [tag |-> "button", id |-> LongId2, text |-> "A", hidden |-> FALSE, options |-> {},    type |-> "",         value |-> ""],
    [tag |-> "input",  id |-> NoId,    text |-> "A", hidden |-> FALSE, options |-> {},    type |-> "password", value |-> "s"],
    [tag |-> "input",  id |-> NoId,    text |-> "A", hidden |-> FALSE, options |-> {},    type |-> "PASSWORD", value |-> "s"]
>>

\* The sites: a form of two unlabelled inputs; a page whose scripts reuse the
\* id "x" for a hidden button, a <select> and a button; a page of two buttons
\* whose ids share their first 49 characters; a login form of two password
\* inputs, one written type="password" and one type="PASSWORD".  Each site has the nodes its
\* scripts attach and detach, and the document a navigation loads.
SiteNodes == <<{1, 2}, {3, 4, 5}, {6, 7}, {8, 9}>>
SitePage == << <<1, 2>>, <<3, 4>>, <<6, 7>>, <<8, 9>> >>
Sites == DOMAIN SiteNodes

Nids == DOMAIN PageNodes
NoNode == 0

\* Byte length of a selector token.
TokLen(t) == CASE t = "P49" -> 49
               [] t = ":nth-of-type(" -> 13
               [] t \in {"input", "button", "select"} -> 6
               [] OTHER -> 1

Digit(k) == <<"1", "2", "3", "4", "5", "6", "7", "8", "9">>[k]

\* Nodes of d (a sequence of nids) before position p with the tag of d[p], plus d[p].
SameTagUpTo(d, p) == {q \in 1..p : PageNodes[d[q]].tag = PageNodes[d[p]].tag}
SameTagSiblings(d, p) == {q \in 1..Len(d) : PageNodes[d[q]].tag = PageNodes[d[p]].tag}

\* OBSERVE_JS "Build unique selector": #id first; the nodes of the model carry
\* no name, aria-label, placeholder or data-testid, so the next branch taken
\* is the nth-of-type path, which for a child of <body> is one step long.
BuildSelector(d, p) ==
    LET n == PageNodes[d[p]] IN
    IF n.id # NoId THEN <<"#">> \o n.id
    ELSE IF Cardinality(SameTagSiblings(d, p)) > 1
         THEN <<n.tag, ":nth-of-type(", Digit(Cardinality(SameTagUpTo(d, p))), ")">>
         ELSE <<n.tag>>

\* Does the node at position p of d match selector sel?
Matches(d, p, sel) ==
    LET n == PageNodes[d[p]] IN
    IF Head(sel) = "#" THEN n.id = Tail(sel)
    ELSE /\ n.tag = Head(sel)
         /\ Len(sel) > 1 => Digit(Cardinality(SameTagUpTo(d, p))) = sel[3]

\* document.querySelector(sel): the first matching node in document order.
QuerySelector(d, sel) ==
    LET hits == {p \in 1..Len(d) : Matches(d, p, sel)} IN
    IF hits = {} THEN NoNode
    ELSE d[CHOOSE p \in hits : \A q \in hits : p <= q]

\* ------------------------------------------------------------ observation
\* selector[..selector.len().min(50)]: the tokens that fit in the first n bytes.
RECURSIVE SelectorPrefix(_, _)
SelectorPrefix(sel, n) ==
    IF sel = <<>> \/ TokLen(Head(sel)) > n THEN <<>>
    ELSE <<Head(sel)>> \o SelectorPrefix(Tail(sel), n - TokLen(Head(sel)))

\* InteractiveElement::compute_fingerprint.  The 64-bit hash is modelled as
\* the tuple of the hashed fields (a collision-free hash).
compute_fingerprint(tag, text, role, input_type, placeholder, selector) ==
    <<tag, text, role, input_type, placeholder,
      SelectorPrefix(selector, FingerprintSelectorLen)>>

\* OBSERVE_JS processElement: the raw record of the node at position p of d;
\* emit is FALSE when the script rejects the node before it builds a selector.
\* `node` and `resolved` are not fields of the program's record: they remember
\* which DOM node the record was produced from, and which node its selector
\* resolved to on the observed page.
processElement(d, p) ==
    LET n == PageNodes[d[p]]
        isFormEl == n.tag \in {"input", "select", "textarea"}
        inputType == n.type
    IN  IF n.hidden THEN [emit |-> FALSE]
        ELSE IF n.text = "" /\ ~isFormEl THEN [emit |-> FALSE]
        ELSE [emit |-> TRUE,
              tag |-> n.tag,
              role |-> "null",
              text |-> n.text,
              placeholder |-> "null",
              input_type |-> IF n.tag = "input"
                             THEN (IF inputType # "" THEN inputType ELSE "text")
                             ELSE IF n.tag = "select" THEN "select" ELSE "null",
              selector |-> BuildSelector(d, p),
              value |-> IF isFormEl /\ inputType # "password" THEN n.value ELSE "",
              node |-> d[p],
              resolved |-> QuerySelector(d, BuildSelector(d, p))]

\* Variant of collect that emits every record, without the `seen` test.
RECURSIVE collect_without_seen(_, _, _, _)
collect_without_seen(d, p, seen, results) ==
    IF p > Len(d) THEN results
    ELSE LET r == processElement(d, p) IN
         IF ~r.emit THEN collect_without_seen(d, p + 1, seen, results)
         ELSE collect_without_seen(d, p + 1, seen, Append(results, r))

\* OBSERVE_JS collect + the tail of processElement: document order from
\* position p on, skipping a record whose selector is already in `seen`.
RECURSIVE collect(_, _, _, _)
collect(d, p, seen, results) ==
    IF p > Len(d) THEN results
    ELSE LET r == processElement(d, p) IN
         IF ~r.emit THEN collect(d, p + 1, seen, results)
         ELSE IF r.selector \in seen THEN collect(d, p + 1, seen, results)
         ELSE collect(d, p + 1, seen \cup {r.selector}, Append(results, r))

\* OBSERVE_JS: collect(document) starting from empty `seen` and `results`.
OBSERVE_JS(d) == collect(d, 1, {}, <<>>)

\* The index the host gives the raw record at position i (1-based) of the result.
ObserveIndex(i) == i - 1

\* The fingerprint the host attaches to a raw record.
ObserveFingerprint(r) ==
    compute_fingerprint(r.tag, r.text, r.role, r.input_type, r.placeholder, r.selector)

\* observe::observe, the map closure: wrap the raw records into
\* InteractiveElements with dense indices and fingerprints.
InteractiveElements(raw) ==
    [i \in 1..Len(raw) |->
        [index |-> ObserveIndex(i),
         tag |-> raw[i].tag,
         role |-> raw[i].role,
         text |-> raw[i].text,
         placeholder |-> raw[i].placeholder,
         input_type |-> raw[i].input_type,
         selector |-> raw[i].selector,
         value |-> raw[i].value,
         fingerprint |-> ObserveFingerprint(raw[i]),
         node |-> raw[i].node,
         resolved |-> raw[i].resolved]]

\* observe::observe: run the script on the page and wrap its result.
observe(d) == InteractiveElements(OBSERVE_JS(d))

\* ------------------------------------------------------------- page calls
\* Outcome of one call: ok, the error kind and message when not ok, whether
\* the action's own page call was issued (sent), the node it acted on, and
\* the index an error message names (moved, -1 when none).
Outcome(ok, err, msg, sent, acted, moved) ==
    [ok |-> ok, err |-> err, msg |-> msg, sent |-> sent, acted |-> acted, moved |-> moved]

Ok(sent, acted) == Outcome(TRUE, "none", "", sent, acted, -1)
Err(err, msg, sent) == Outcome(FALSE, err, msg, sent, NoNode, -1)

\* A page call that the transport or the browser fails.
CallFailed == Err("Cdp", "call failed", TRUE)

\* Page::click(selector): resolve, require visibility, press and release.
PageClick(d, sel, fails) ==
    LET n == QuerySelector(d, sel) IN
    IF fails THEN CallFailed
    ELSE IF n = NoNode THEN Err("ElementNotFound", "not found", TRUE)
    ELSE IF PageNodes[n].hidden THEN Err("ElementNotVisible", "not visible", TRUE)
    ELSE Ok(TRUE, n)

\* Page::fill(selector, text): resolve, focus, clear, type.
PageFill(d, sel, fails) ==
    LET n == QuerySelector(d, sel) IN
    IF fails THEN CallFailed
    ELSE IF n = NoNode THEN Err("ElementNotFound", "not found", TRUE)
    ELSE IF PageNodes[n].tag # "input" THEN Err("NotEditable", "not editable", TRUE)
    ELSE Ok(TRUE, n)

\* The select script of AgentPage::select / Session::select, and the caller's
\* test of its boolean result.
SelectJs(d, sel, val, index, fails) ==
    LET n == QuerySelector(d, sel) IN
    IF fails THEN CallFailed
    ELSE IF n = NoNode THEN Err("ElementNotFound", "option", TRUE)
    ELSE IF PageNodes[n].tag # "select" THEN Err("JsException", "options is not iterable", TRUE)
    ELSE IF val \notin PageNodes[n].options THEN Err("ElementNotFound", "option", TRUE)
    ELSE Ok(TRUE, n)

\* document.querySelector(sel)?.scrollIntoView(...): a no-op on no match.
ScrollJs(d, sel, fails) ==
    IF fails THEN CallFailed ELSE Ok(TRUE, QuerySelector(d, sel))

\* dispatch_mouse_event(MouseMoved, cx, cy): goes to coordinates, not to a node.
HoverDispatch(fails) ==
    IF fails THEN CallFailed ELSE Ok(TRUE, NoNode)

\* ------------------------------------------------------ element lookup
\* AgentPage::require.
require(els, index) ==
    IF index < Len(els)
    THEN [ok |-> TRUE, out |-> Ok(FALSE, NoNode), elements |-> els]
    ELSE [ok |-> FALSE,
          out |-> Err("ElementNotFound", "observed n elements", FALSE),
          elements |-> els]

\* Variant of stale_lookup that reports the position counted from one.
stale_lookup_one_based(el, fresh) ==
    LET hits == {i \in 1..Len(fresh) : fresh[i].fingerprint = el.fingerprint} IN
    IF hits # {}
    THEN [ok |-> FALSE,
          out |-> Outcome(FALSE, "ElementNotFound", "moved", FALSE, NoNode,
                          CHOOSE i \in hits : \A j \in hits : i <= j),
          elements |-> fresh]
    ELSE [ok |-> FALSE,
          out |-> Err("ElementNotFound", "no longer exists", FALSE),
          elements |-> fresh]

\* Session::require_fresh after the selector probe said "gone" and the
\* re-observation returned `fresh`: look the cached fingerprint up in it.
\* elements is the cache the call leaves behind.
stale_lookup(el, fresh) ==
    LET hits == {i \in 1..Len(fresh) : fresh[i].fingerprint = el.fingerprint} IN
    IF hits # {}
    THEN [ok |-> FALSE,
          out |-> Outcome(FALSE, "ElementNotFound", "moved", FALSE, NoNode,
                          (CHOOSE i \in hits : \A j \in hits : i <= j) - 1),
          elements |-> fresh]
    ELSE [ok |-> FALSE,
          out |-> Err("ElementNotFound", "no longer exists", FALSE),
          elements |-> fresh]

\* The selector probe of require_fresh: evaluate(...).unwrap_or(false).
selector_exists(d, sel, F) ==
    IF F = "check" THEN FALSE ELSE QuerySelector(d, sel) # NoNode

\* Variant of require_fresh that re-observes before refusing an index that
\* is out of range.
require_fresh_reobserving(els, d, index, F) ==
    IF index < Len(els)
    THEN IF selector_exists(d, els[index + 1].selector, F)
         THEN [ok |-> TRUE, out |-> Ok(FALSE, NoNode), elements |-> els]
         ELSE IF F = "observe"
         THEN [ok |-> FALSE, out |-> Err("Cdp", "call failed", FALSE), elements |-> els]
         ELSE stale_lookup(els[index + 1], observe(d))
    ELSE [ok |-> FALSE,
          out |-> Err("ElementNotFound", "not found", FALSE),
          elements |-> IF F = "observe" THEN els ELSE observe(d)]

\* Session::require_fresh.  F is the page call that fails in this handler:
\* "check" (the querySelector probe), "observe", "act", or "none".
require_fresh(els, d, index, F) ==
    IF index < Len(els)
    THEN IF selector_exists(d, els[index + 1].selector, F)
         THEN [ok |-> TRUE, out |-> Ok(FALSE, NoNode), elements |-> els]
         ELSE IF F = "observe"
         THEN [ok |-> FALSE, out |-> Err("Cdp", "call failed", FALSE), elements |-> els]
         ELSE stale_lookup(els[index + 1], observe(d))
    ELSE [ok |-> FALSE,
          out |-> Err("ElementNotFound", "not found", FALSE),
          elements |-> els]

\* What `last` records of a call.
Returned(op, index, out) == [op |-> op, index |-> index] @@ out

\* ------------------------------------------------------------------ inputs
Indices == 0..MaxIndex
\* The page call of a handler that fails: the querySelector probe ("check"),
\* the re-observation ("observe"), the action's own call ("act"), or none.
Calls == {"none", "check", "observe", "act"}
OptionValues == {"r", "zz"}
\* Documents a navigation can load: about:blank and the site's page.
LoadablePages == {<<>>, SitePage[site]}

\* Option<BrowserState> = None: no browser was launched.  gen counts launches.
NoServer == [up |-> FALSE, unhealthy |-> FALSE, tab |-> FALSE, gen |-> 0]
\* No value-returning call was made yet.
NoValue == [op |-> "none"]

Init ==
    /\ kind \in {"AgentPage", "Session"}
    /\ site \in Sites
    /\ dom = <<>>
    /\ elements = <<>>
    /\ overlays = 0
    /\ last = Returned("launch", -1, Ok(FALSE, NoNode))
    /\ server = NoServer
    /\ ret = NoValue
    /\ pc = "idle"

\* --------------------------------------------------- the page changes itself
\* A page script (or the caller's exec) attaches node n at position pos.
PageInsert(n, pos) ==
    /\ Len(dom) < MaxDom
    /\ n \in SiteNodes[site]
    /\ \A q \in 1..Len(dom) : dom[q] # n
    /\ pos \in 1..(Len(dom) + 1)
    /\ dom' = SubSeq(dom, 1, pos - 1) \o <<n>> \o SubSeq(dom, pos, Len(dom))
    /\ last' = Returned("page", -1, Ok(FALSE, NoNode))
    /\ UNCHANGED <<others, kind, site, elements, overlays>>

\* A page script (or the caller's exec) removes the node at position pos.
PageRemove(pos) ==
    /\ pos \in 1..Len(dom)
    /\ dom' = SubSeq(dom, 1, pos - 1) \o SubSeq(dom, pos + 1, Len(dom))
    /\ last' = Returned("page", -1, Ok(FALSE, NoNode))
    /\ UNCHANGED <<others, kind, site, elements, overlays>>

\* -------------------------------------------------------------- observation
\* AgentPage::observe / Session::observe: replace the cache, or fail and keep it.
Observe(fails) ==
    /\ elements' = IF fails THEN elements ELSE observe(dom)
    /\ last' = Returned("observe", -1, IF fails THEN CallFailed ELSE Ok(TRUE, NoNode))
    /\ UNCHANGED <<others, kind, site, dom, overlays>>

\* ------------------------------------------------------- Session actions
\* Variant of Session_click that keeps the cache after a successful click.
Session_click_keeping_cache(index, F) ==
    /\ kind = "Session"
    /\ LET rf == require_fresh(elements, dom, index, F)
           out == IF rf.ok
                  THEN PageClick(dom, rf.elements[index + 1].selector, F = "act")
                  ELSE rf.out
       IN  /\ elements' = rf.elements
           /\ last' = Returned("click", index, out)
    /\ UNCHANGED <<others, kind, site, dom, overlays>>

\* Session::click.
Session_click(index, F) ==
    /\ kind = "Session"
    /\ LET rf == require_fresh(elements, dom, index, F)
           out == IF rf.ok
                  THEN PageClick(dom, rf.elements[index + 1].selector, F = "act")
                  ELSE rf.out
       IN  /\ elements' = IF out.ok THEN <<>> ELSE rf.elements
           /\ last' = Returned("click", index, out)
    /\ UNCHANGED <<others, kind, site, dom, overlays>>

\* Variant of Session_fill that clears the cache after a successful fill.
Session_fill_clearing_cache(index, F) ==
    /\ kind = "Session"
    /\ LET rf == require_fresh(elements, dom, index, F)
           out == IF rf.ok
                  THEN PageFill(dom, rf.elements[index + 1].selector, F = "act")
                  ELSE rf.out
       IN  /\ elements' = IF out.ok THEN <<>> ELSE rf.elements
           /\ last' = Returned("fill", index, out)
    /\ UNCHANGED <<others, kind, site, dom, overlays>>

\* Session::fill.
Session_fill(index, F) ==
    /\ kind = "Session"
    /\ LET rf == require_fresh(elements, dom, index, F)
           out == IF rf.ok
                  THEN PageFill(dom, rf.elements[index + 1].selector, F = "act")
                  ELSE rf.out
       IN  /\ elements' = rf.elements
           /\ last' = Returned("fill", index, out)
    /\ UNCHANGED <<others, kind, site, dom, overlays>>

\* Variant of Session_select that keeps the cache after a successful select.
Session_select_keeping_cache(index, val, F) ==
    /\ kind = "Session"
    /\ LET rf == require_fresh(elements, dom, index, F)
           out == IF rf.ok
                  THEN SelectJs(dom, rf.elements[index + 1].selector, val, index, F = "act")
                  ELSE rf.out
       IN  /\ elements' = rf.elements
           /\ last' = Returned("select", index, out)
    /\ UNCHANGED <<others, kind, site, dom, overlays>>

\* Session::select.
Session_select(index, val, F) ==
    /\ kind = "Session"
    /\ LET rf == require_fresh(elements, dom, index, F)
           out == IF rf.ok
                  THEN SelectJs(dom, rf.elements[index + 1].selector, val, index, F = "act")
                  ELSE rf.out
       IN  /\ elements' = IF out.ok THEN <<>> ELSE rf.elements
           /\ last' = Returned("select", index, out)
    /\ UNCHANGED <<others, kind, site, dom, overlays>>

\* Session::hover.
Session_hover(index, F) ==
    /\ kind = "Session"
    /\ LET rf == require_fresh(elements, dom, index, F)
           out == IF rf.ok THEN HoverDispatch(F = "act") ELSE rf.out
       IN  /\ elements' = rf.elements
           /\ last' = Returned("hover", index, out)
    /\ UNCHANGED <<others, kind, site, dom, overlays>>

\* Session::scroll_to.
Session_scroll_to(index, F) ==
    /\ kind = "Session"
    /\ LET rf == require_fresh(elements, dom, index, F)
           out == IF rf.ok
                  THEN ScrollJs(dom, rf.elements[index + 1].selector, F = "act")
                  ELSE rf.out
       IN  /\ elements' = rf.elements
           /\ last' = Returned("scroll_to", index, out)
    /\ UNCHANGED <<others, kind, site, dom, overlays>>

\* ------------------------------------------------------ AgentPage actions
AgentPage_click(index, fails) ==
    /\ kind = "AgentPage"
    /\ LET rq == require(elements, index)
           out == IF rq.ok THEN PageClick(dom, elements[index + 1].selector, fails)
                  ELSE rq.out
       IN  last' = Returned("click", index, out)
    /\ UNCHANGED <<others, kind, site, dom, elements, overlays>>

AgentPage_fill(index, fails) ==
    /\ kind = "AgentPage"
    /\ LET rq == require(elements, index)
           out == IF rq.ok THEN PageFill(dom, elements[index + 1].selector, fails)
                  ELSE rq.out
       IN  last' = Returned("fill", index, out)
    /\ UNCHANGED <<others, kind, site, dom, elements, overlays>>

AgentPage_select(index, val, fails) ==
    /\ kind = "AgentPage"
    /\ LET rq == require(elements, index)
           out == IF rq.ok THEN SelectJs(dom, elements[index + 1].selector, val, index, fails)
                  ELSE rq.out
       IN  last' = Returned("select", index, out)
    /\ UNCHANGED <<others, kind, site, dom, elements, overlays>>

AgentPage_hover(index, fails) ==
    /\ kind = "AgentPage"
    /\ LET rq == require(elements, index)
           out == IF rq.ok THEN HoverDispatch(fails) ELSE rq.out
       IN  last' = Returned("hover", index, out)
    /\ UNCHANGED <<others, kind, site, dom, elements, overlays>>

AgentPage_scroll_to(index, fails) ==
    /\ kind = "AgentPage"
    /\ LET rq == require(elements, index)
           out == IF rq.ok THEN ScrollJs(dom, elements[index + 1].selector, fails)
                  ELSE rq.out
       IN  last' = Returned("scroll_to", index, out)
    /\ UNCHANGED <<others, kind, site, dom, elements, overlays>>

\* click, wait_for_stable (always Ok), then clear the cache.
AgentPage_click_and_wait(index, fails) ==
    /\ kind = "AgentPage"
    /\ LET rq == require(elements, index)
           out == IF rq.ok THEN PageClick(dom, elements[index + 1].selector, fails)
                  ELSE rq.out
       IN  /\ elements' = IF out.ok THEN <<>> ELSE elements
           /\ last' = Returned("click_and_wait", index, out)
    /\ UNCHANGED <<others, kind, site, dom, overlays>>

\* --------------------------------------------------------------- navigation
\* goto / back / forward / reload of both objects: clear the cache first,
\* then ask the page to navigate.  A new document carries no overlay.
Navigate(op, fails) ==
    /\ elements' = <<>>
    /\ IF fails
       THEN /\ dom' = dom
            /\ overlays' = overlays
       ELSE /\ dom' \in LoadablePages
            /\ overlays' = 0
    /\ last' = Returned(op, -1, IF fails THEN CallFailed ELSE Ok(TRUE, NoNode))
    /\ UNCHANGED <<others, kind, site>>

Goto(fails) == Navigate("goto", fails)
Back(fails) == Navigate("back", fails)
Forward(fails) == Navigate("forward", fails)
\* Only AgentPage has reload.
AgentPage_reload(fails) == kind = "AgentPage" /\ Navigate("reload", fails)

\* Variant of SpaNavigate that keeps the cache after a successful navigation.
SpaNavigate_keeping_cache(F, scriptOk) ==
    LET out == IF F = "check" THEN Err("Cdp", "call failed", FALSE)
               ELSE IF F = "act" THEN CallFailed
               ELSE IF ~scriptOk THEN Err("Cdp", "SPA navigation failed", TRUE)
               ELSE Ok(TRUE, NoNode)
    IN  /\ dom' \in IF out.ok THEN LoadablePages \cup {dom} ELSE {dom}
        /\ last' = Returned("spa_navigate", -1, out)
        /\ UNCHANGED <<others, kind, site, elements, overlays>>

\* spa_navigate of both objects: detect_router, then spa::spa_navigate, then
\* clear the cache.  F is the failing call ("check" = detect_router,
\* "act" = the navigation script); scriptOk is FALSE when the script
\* reports success: false.  The document stays, the router re-renders it.
SpaNavigate(F, scriptOk) ==
    LET out == IF F = "check" THEN Err("Cdp", "call failed", FALSE)
               ELSE IF F = "act" THEN CallFailed
               ELSE IF ~scriptOk THEN Err("Cdp", "SPA navigation failed", TRUE)
               ELSE Ok(TRUE, NoNode)
    IN  /\ elements' = IF out.ok THEN <<>> ELSE elements
        /\ dom' \in IF out.ok THEN LoadablePages \cup {dom} ELSE {dom}
        /\ last' = Returned("spa_navigate", -1, out)
        /\ UNCHANGED <<others, kind, site, overlays>>

\* history_go of both objects: spa::history_go, then clear the cache.
HistoryGo(fails, scriptOk) ==
    LET out == IF fails THEN CallFailed
               ELSE IF ~scriptOk THEN Err("Cdp", "History navigation failed", TRUE)
               ELSE Ok(TRUE, NoNode)
    IN  /\ elements' = IF out.ok THEN <<>> ELSE elements
        /\ dom' \in IF out.ok THEN LoadablePages \cup {dom} ELSE {dom}
        /\ overlays' \in IF out.ok /\ dom' # dom THEN {0, overlays} ELSE {overlays}
        /\ last' = Returned("history_go", -1, out)
        /\ UNCHANGED <<others, kind, site>>

\* ------------------------------------------------------ annotated screenshot
Stages == {"none", "observe", "inject", "capture", "remove"}

\* getElementById('__eoka_overlay')?.remove(): detaches the first container.
RemoveOverlay(n) == IF n > 0 THEN n - 1 ELSE 0

\* annotate::annotated_screenshot with `ov` containers already on the page;
\* `stage` is the page call that fails.
annotated_screenshot(els, ov, stage) ==
    IF els = <<>>
    THEN [out |-> IF stage = "capture" THEN Err("Cdp", "plain capture failed", TRUE)
                  ELSE Ok(TRUE, NoNode),
          overlays |-> ov]
    ELSE IF stage = "inject"
    THEN [out |-> Err("Cdp", "inject failed", TRUE), overlays |-> ov]
    ELSE IF stage = "capture"
    THEN [out |-> Err("Cdp", "capture failed", TRUE), overlays |-> ov + 1]
    ELSE IF stage = "remove"
    THEN [out |-> Err("Cdp", "remove failed", TRUE), overlays |-> ov + 1]
    ELSE [out |-> Ok(TRUE, NoNode), overlays |-> RemoveOverlay(ov + 1)]

\* AgentPage::screenshot / Session::screenshot: observe if the cache is empty,
\* then take the annotated screenshot.
Screenshot(stage) ==
    /\ overlays < MaxOverlays
    /\ IF elements = <<>> /\ stage = "observe"
       THEN /\ last' = Returned("screenshot", -1, Err("Cdp", "call failed", FALSE))
            /\ UNCHANGED <<elements, overlays>>
       ELSE LET els == IF elements = <<>> THEN observe(dom) ELSE elements
                shot == annotated_screenshot(els, overlays, stage)
            IN  /\ elements' = els
                /\ overlays' = shot.overlays
                /\ last' = Returned("screenshot", -1, shot.out)
    /\ UNCHANGED <<others, kind, site, dom>>

\* ------------------------------------------------------------ observe_diff
\* Variant of observe_diff that counts the removed selectors among the new
\* elements instead of the old ones.
observe_diff_counting_new(old, new) ==
    LET old_selectors == {old[j].selector : j \in 1..Len(old)}
        IsAdded(e) == e.selector \notin old_selectors
        addedEls == SelectSeq(new, IsAdded)
    IN  [op |-> "observe_diff",
         added |-> [k \in 1..Len(addedEls) |-> addedEls[k].index],
         removed |-> Cardinality({j \in 1..Len(new) : new[j].selector \notin old_selectors}),
         total |-> Len(new)]

\* The ObserveDiff that AgentPage::observe_diff builds from the prior cache
\* `old` and the new observation `new`.
observe_diff(old, new) ==
    LET old_selectors == {old[j].selector : j \in 1..Len(old)}
        new_selectors == {new[j].selector : j \in 1..Len(new)}
        IsAdded(e) == e.selector \notin old_selectors
        addedEls == SelectSeq(new, IsAdded)
    IN  [op |-> "observe_diff",
         added |-> [k \in 1..Len(addedEls) |-> addedEls[k].index],
         removed |-> Cardinality({s \in old_selectors : s \notin new_selectors}),
         total |-> Len(new)]

\* AgentPage::observe_diff: a failed observation returns its error and keeps
\* the cache.
AgentPage_observe_diff(fails) ==
    /\ kind = "AgentPage"
    /\ elements' = IF fails THEN elements ELSE observe(dom)
    /\ ret' = IF fails THEN ret ELSE observe_diff(elements, observe(dom))
    /\ last' = Returned("observe_diff", -1, IF fails THEN CallFailed ELSE Ok(TRUE, NoNode))
    /\ UNCHANGED <<server, pc, kind, site, dom, overlays>>

\* --------------------------------------------------------- wait_for_stable
\* What page.wait_for_network_idle(200, 2000) can return.
NetworkIdleOutcomes == {"idle", "timeout", "error"}

\* Variant of wait_for_stable_result that propagates the idle wait's error.
wait_for_stable_propagating(network) ==
    IF network = "idle" THEN Ok(FALSE, NoNode) ELSE Err("Timeout", "network idle", FALSE)

\* What wait_for_stable returns after the idle wait ended with `network`:
\* `let _ = ...` drops the idle wait's result, the function ends with Ok(()).
wait_for_stable_result(network) == Ok(FALSE, NoNode)

\* The caller enters wait_for_stable and starts the idle wait.
WaitForStable_enter ==
    /\ pc = "idle"
    /\ pc' = "network_idle"
    /\ UNCHANGED <<server, ret, kind, site, dom, elements, overlays, last>>

\* page.wait_for_network_idle(200, 2000) returns: the network went idle, or
\* the 2000 ms ran out, or the call failed.
WaitForStable_network_idle(network) ==
    /\ pc = "network_idle"
    /\ pc' = "settle"
    /\ ret' = [op |-> "wait_for_stable", network |-> network]
    /\ UNCHANGED <<server, kind, site, dom, elements, overlays, last>>

\* page.wait(50) is over and wait_for_stable returns.
WaitForStable_return ==
    /\ pc = "settle"
    /\ pc' = "idle"
    /\ last' = Returned("wait_for_stable", -1, wait_for_stable_result(ret.network))
    /\ UNCHANGED <<server, ret, kind, site, dom, elements, overlays>>

\* ------------------------------------------------------------ Target::parse
\* A target string is a sequence of tokens: a space, a sign, the digits 0 and
\* 7, "N20" (the twenty characters 99999999999999999999, more than
\* usize::MAX), a letter, and the five prefixes.
TargetPrefixes == {"text:", "placeholder:", "role:", "css:", "id:"}
TargetDigits == {"0", "7", "N20"}
TargetAlphabet == {" ", "+", "-", "a"} \cup TargetDigits \cup TargetPrefixes
TargetStrings == UNION {[1..n -> TargetAlphabet] : n \in 0..MaxTargetLen}

\* str::trim: drop leading and trailing whitespace.
RECURSIVE trim_start(_)
trim_start(s) == IF s # <<>> /\ Head(s) = " " THEN trim_start(Tail(s)) ELSE s
RECURSIVE trim_end(_)
trim_end(s) ==
    IF s # <<>> /\ s[Len(s)] = " " THEN trim_end(SubSeq(s, 1, Len(s) - 1)) ELSE s
trim(s) == trim_end(trim_start(s))

\* The value of a string of the digits 0 and 7.
RECURSIVE DecimalValue(_)
DecimalValue(ds) ==
    IF ds = <<>> THEN 0
    ELSE 10 * DecimalValue(SubSeq(ds, 1, Len(ds) - 1))
         + (IF ds[Len(ds)] = "7" THEN 7 ELSE 0)

\* str::parse::<usize>: an optional "+", then at least one ASCII digit, and
\* a value that fits in usize; anything else is an Err.
parse_usize(s) ==
    LET ds == IF s # <<>> /\ Head(s) = "+" THEN Tail(s) ELSE s IN
    IF ds = <<>> THEN [ok |-> FALSE]
    ELSE IF \E k \in 1..Len(ds) : ds[k] \notin TargetDigits THEN [ok |-> FALSE]
    ELSE IF \E k \in 1..Len(ds) : ds[k] = "N20" THEN [ok |-> FALSE]
    ELSE [ok |-> TRUE, val |-> DecimalValue(ds)]

\* Variant of LivePattern_parse that also trims the value after the prefix.
LivePattern_parse_trimming(s) ==
    IF s # <<>> /\ Head(s) \in TargetPrefixes
    THEN [kind |-> Head(s), value |-> trim(Tail(s))]
    ELSE [kind |-> "text:", value |-> s]

\* LivePattern::parse: strip_prefix in the order text, placeholder, role,
\* css, id; no prefix defaults to a text search for the whole string.
LivePattern_parse(s) ==
    IF s # <<>> /\ Head(s) = "text:" THEN [kind |-> "text:", value |-> Tail(s)]
    ELSE IF s # <<>> /\ Head(s) = "placeholder:" THEN [kind |-> "placeholder:", value |-> Tail(s)]
    ELSE IF s # <<>> /\ Head(s) = "role:" THEN [kind |-> "role:", value |-> Tail(s)]
    ELSE IF s # <<>> /\ Head(s) = "css:" THEN [kind |-> "css:", value |-> Tail(s)]
    ELSE IF s # <<>> /\ Head(s) = "id:" THEN [kind |-> "id:", value |-> Tail(s)]
    ELSE [kind |-> "text:", value |-> s]

\* Target::parse.
Target_parse(s) ==
    LET t == trim(s)
        idx == parse_usize(t)
    IN  IF idx.ok THEN [target |-> "Index", idx |-> idx.val]
        ELSE [target |-> "Live"] @@ LivePattern_parse(t)

\* The caller's target string ret.input is parsed.
ParseTarget ==
    /\ ret.op = "input"
    /\ ret' = [op |-> "Target::parse", input |-> ret.input, out |-> Target_parse(ret.input)]
    /\ UNCHANGED <<server, pc, kind, site, dom, elements, overlays, last>>

\* ------------------------------------------------- byte slices of strings
\* A Rust &str as far as a byte slice sees it: `ascii` one-byte characters,
\* then the characters of `tail`, each given by its UTF-8 width.
MaxTail == 2

CharWidths == {1, 2, 3}

AsciiRuns == {0, 49, 59, 79}

Utf8Strings == [ascii : AsciiRuns, tail : UNION {[1..k -> CharWidths] : k \in 0..MaxTail}]

EmptyStr == [ascii |-> 0, tail |-> <<>>]

RECURSIVE SumWidths(_)
SumWidths(ws) == IF ws = <<>> THEN 0 ELSE Head(ws) + SumWidths(Tail(ws))

\* str::len: the length in bytes.
byte_len(s) == s.ascii + SumWidths(s.tail)

\* str::is_char_boundary.
is_char_boundary(s, k) ==
    \/ k <= s.ascii
    \/ \E j \in 0..Len(s.tail) : k = s.ascii + SumWidths(SubSeq(s.tail, 1, j))

\* &s[..k]: panics when k is past the end or inside a character.
slice_to(s, k) ==
    IF k <= byte_len(s) /\ is_char_boundary(s, k) THEN "ok" ELSE "panic"

Min(a, b) == IF a < b THEN a ELSE b

ExtractExprLen == 60
ExtractJsonLen == 80
ExecuteLogLen == 50

\* What page.evaluate hands to extract: an error, or the JSON text.  "value"
\* is text that deserializes into T, "mismatch" text that does not.
EvaluateKinds == {"error", "null", "undefined", "empty", "value", "mismatch"}

Responses ==
    {[kind |-> k, body |-> EmptyStr] : k \in EvaluateKinds \ {"mismatch"}}
    \cup {[kind |-> "mismatch", body |-> b] : b \in {u \in Utf8Strings : u.ascii \in {0, 79}}}

\* AgentPage::extract: "err" is a returned Err, "panic" an unwinding panic.
extract(js_expression, response) ==
    IF response.kind = "error" THEN "err"
    ELSE IF response.kind \in {"null", "undefined", "empty"}
    THEN IF byte_len(js_expression) > ExtractExprLen
         THEN (IF slice_to(js_expression, ExtractExprLen) = "panic" THEN "panic" ELSE "err")
         ELSE "err"
    ELSE IF response.kind = "value" THEN "ok"
    ELSE IF byte_len(response.body) > ExtractJsonLen
         THEN (IF slice_to(response.body, ExtractJsonLen) = "panic" THEN "panic" ELSE "err")
         ELSE "err"

\* The selector slice of InteractiveElement::compute_fingerprint.
fingerprint_slice(selector) ==
    slice_to(selector, Min(byte_len(selector), FingerprintSelectorLen))

\* Action::Execute of execute_with_context: the debug! arguments are evaluated
\* only when the debug level is enabled; page.execute may fail.
execute_action(js, debug, fails) ==
    IF debug /\ slice_to(js, Min(byte_len(js), ExecuteLogLen)) = "panic" THEN "panic"
    ELSE IF fails THEN "err" ELSE "ok"

Extract ==
    /\ ret.op = "input"
    /\ ret' = [op |-> "extract", input |-> ret.input, response |-> ret.response,
               outcome |-> extract(ret.input, ret.response)]
    /\ UNCHANGED <<server, pc, kind, site, dom, elements, overlays, last>>

ComputeFingerprint ==
    /\ ret.op = "input"
    /\ ret' = [op |-> "compute_fingerprint", input |-> ret.input, response |-> ret.response,
               outcome |-> fingerprint_slice(ret.input)]
    /\ UNCHANGED <<server, pc, kind, site, dom, elements, overlays, last>>

ExecuteAction(debug, fails) ==
    /\ ret.op = "input"
    /\ ret' = [op |-> "execute", input |-> ret.input, response |-> ret.response,
               debug |-> debug, outcome |-> execute_action(ret.input, debug, fails)]
    /\ UNCHANGED <<server, pc, kind, site, dom, elements, overlays, last>>

\* ------------------------------------------------------------ element_list
\* Option<String>::None.
None == "null"

\* Strings of the rendered fields: plain ones, and ones that hold a double
\* quote or a line break.
PlainStrings == {"", "Go"}

QuotedStrings == {"Go\" value=\"x", "Go\nNow"}

DisplayTags == {"button", "a", "input"}

DisplayTypes == {None, "text", "checkbox"}

DisplayRoles == {None, "button", "link", "tab"}

\* The fields of InteractiveElement that Display writes.
DisplayElements ==
    [index : 0..MaxIndex, tag : DisplayTags, input_type : DisplayTypes,
     checked : BOOLEAN, text : PlainStrings \cup QuotedStrings,
     value : {None, "x"}, placeholder : {None, "x"}, role : DisplayRoles]

\* The role Display writes: a role that repeats the tag is left out.
redundant(el) ==
    \/ el.role = "button" /\ el.tag = "button"
    \/ el.role = "link" /\ el.tag = "a"
    \/ el.role = "menuitem" /\ el.tag = "a"

\* impl Display for InteractiveElement, without the [checked] marker.
Display_without_checked(el) ==
    "[" \o ToString(el.index) \o "] <" \o el.tag
    \o (IF el.input_type # None /\ el.input_type # "text"
        THEN " type=\"" \o el.input_type \o "\"" ELSE "")
    \o ">"
    \o (IF el.text # "" THEN " \"" \o el.text \o "\"" ELSE "")
    \o (IF el.value # None THEN " value=\"" \o el.value \o "\"" ELSE "")
    \o (IF el.placeholder # None THEN " placeholder=\"" \o el.placeholder \o "\"" ELSE "")
    \o (IF el.role # None /\ ~redundant(el) THEN " role=\"" \o el.role \o "\"" ELSE "")

\* impl Display for InteractiveElement.
Display(el) ==
    "[" \o ToString(el.index) \o "] <" \o el.tag
    \o (IF el.input_type # None /\ el.input_type # "text"
        THEN " type=\"" \o el.input_type \o "\"" ELSE "")
    \o ">"
    \o (IF el.checked THEN " [checked]" ELSE "")
    \o (IF el.text # "" THEN " \"" \o el.text \o "\"" ELSE "")
    \o (IF el.value # None THEN " value=\"" \o el.value \o "\"" ELSE "")
    \o (IF el.placeholder # None THEN " placeholder=\"" \o el.placeholder \o "\"" ELSE "")
    \o (IF el.role # None /\ ~redundant(el) THEN " role=\"" \o el.role \o "\"" ELSE "")

\* AgentPage::element_list: every element's rendering followed by a newline.
RECURSIVE element_list(_)
element_list(els) ==
    IF els = <<>> THEN "" ELSE Display(Head(els)) \o "\n" \o element_list(Tail(els))

ElementList ==
    /\ ret.op = "input"
    /\ ret' = [op |-> "element_list", input |-> ret.input, out |-> element_list(ret.input)]
    /\ UNCHANGED <<server, pc, kind, site, dom, elements, overlays, last>>

\* --------------------------------------------------------------- MCP server
\* EokaServer: `server` is its Option<BrowserState> (up = Some), tab says
\* whether a current tab exists, gen counts the browsers launched; dom and
\* elements are the current tab's page and its TabState.elements.
MaxGen == 2

\* Messages of the errors the transport or the browser can give a page call;
\* the first is of the kind is_transport_error recognises.
FaultMessages == {"timed out", "protocol error"}

\* The call of a tool that fails: the launch, the navigation, the first
\* observation, the action, the re-observation, the repeated action, or the
\* title query of navigate, or the closing of the browser.
McpCalls == {"launch", "goto", "observe", "act", "reobserve", "retry", "title", "close"}

NoFault == [at |-> "none", msg |-> ""]

\* The faults a tool that makes the calls `calls` can meet: none, or one call
\* failing with one of the messages.
FaultsAt(calls) == {NoFault} \cup [at : calls \cap McpCalls, msg : FaultMessages]

FaultAt(F, call) == IF F.at = call THEN F.msg ELSE ""

is_transport_error(msg) == msg \in {"timed out"}

\* What a tool returns, and whether it marked the state unhealthy on the way.
text_ok == [ok |-> TRUE, msg |-> "", marks |-> FALSE]

err(msg) == [ok |-> FALSE, msg |-> msg, marks |-> FALSE]

invalid_params(msg) == [ok |-> FALSE, msg |-> msg, marks |-> FALSE]

check_transport_err(msg) ==
    IF is_transport_error(msg) THEN [ok |-> FALSE, msg |-> msg, marks |-> TRUE] ELSE err(msg)

\* The first half of ensure_browser: an unhealthy browser is taken and closed.
close_unhealthy(s) ==
    IF s.up /\ s.unhealthy
    THEN [up |-> FALSE, unhealthy |-> FALSE, tab |-> FALSE, gen |-> s.gen]
    ELSE s

\* Variant of ensure_browser that keeps a browser that is marked unhealthy.
ensure_browser_keeping_unhealthy(s, F) ==
    IF s.up THEN [server |-> s, ok |-> TRUE, msg |-> ""]
    ELSE IF F.at = "launch" THEN [server |-> s, ok |-> FALSE, msg |-> F.msg]
    ELSE [server |-> [up |-> TRUE, unhealthy |-> FALSE, tab |-> FALSE, gen |-> s.gen + 1],
          ok |-> TRUE, msg |-> ""]

\* EokaServer::ensure_browser.
ensure_browser(s, F) ==
    IF close_unhealthy(s).up THEN [server |-> s, ok |-> TRUE, msg |-> ""]
    ELSE IF F.at = "launch" THEN [server |-> close_unhealthy(s), ok |-> FALSE, msg |-> F.msg]
    ELSE [server |-> [up |-> TRUE, unhealthy |-> FALSE, tab |-> FALSE, gen |-> s.gen + 1],
          ok |-> TRUE, msg |-> ""]

\* tab.page.click(selector) / tab.page.fill(selector, text).
mcp_attempt(op, d, sel, fmsg) ==
    IF fmsg # "" THEN Err("Cdp", fmsg, TRUE)
    ELSE IF op = "click" THEN PageClick(d, sel, FALSE)
    ELSE PageFill(d, sel, FALSE)

\* The guard of the retry arm.
retryable(out) == ~out.ok /\ out.msg \in {"not found", "not visible"}

\* What click / fill did: the cache they leave, the result, the number of
\* page actions issued, the number of re-observations, the node the caller's
\* index named when it was first resolved, the node acted on, and the message
\* of the first attempt's error.
ActResult(els, res, attempts, reobserved, named, acted, first) ==
    [elements |-> els, res |-> res, attempts |-> attempts, reobserved |-> reobserved,
     named |-> named, acted |-> acted, first |-> first]

\* Variant of the retry arm that repeats the action once more when the
\* repeated action fails with "not found" too.
mcp_retry_twice(op, fresh, d, idx, F, named, first) ==
    IF idx >= Len(fresh)
    THEN ActResult(fresh, invalid_params("out of range"), 1, 1, named, NoNode, first)
    ELSE IF mcp_attempt(op, d, fresh[idx + 1].selector, FaultAt(F, "retry")).ok
    THEN ActResult(<<>>, text_ok, 2, 1, named,
                   mcp_attempt(op, d, fresh[idx + 1].selector, FaultAt(F, "retry")).acted, first)
    ELSE IF retryable(mcp_attempt(op, d, fresh[idx + 1].selector, FaultAt(F, "retry")))
    THEN ActResult(fresh, err("not found"), 3, 1, named, NoNode, first)
    ELSE ActResult(fresh,
                   check_transport_err(mcp_attempt(op, d, fresh[idx + 1].selector,
                                                   FaultAt(F, "retry")).msg),
                   2, 1, named, NoNode, first)

\* The retry arm of click / fill after the re-observation returned `fresh`:
\* resolve the same target string in the new cache and repeat the action.
mcp_retry(op, fresh, d, idx, F, named, first) ==
    IF idx >= Len(fresh)
    THEN ActResult(fresh, invalid_params("out of range"), 1, 1, named, NoNode, first)
    ELSE IF mcp_attempt(op, d, fresh[idx + 1].selector, FaultAt(F, "retry")).ok
    THEN ActResult(<<>>, text_ok, 2, 1, named,
                   mcp_attempt(op, d, fresh[idx + 1].selector, FaultAt(F, "retry")).acted, first)
    ELSE ActResult(fresh,
                   check_transport_err(mcp_attempt(op, d, fresh[idx + 1].selector,
                                                   FaultAt(F, "retry")).msg),
                   2, 1, named, NoNode, first)

\* The match on the first attempt's result out1.
mcp_tried(op, els, d, idx, F, out1) ==
    IF out1.ok
    THEN ActResult(<<>>, text_ok, 1, 0, els[idx + 1].node, out1.acted, "")
    ELSE IF retryable(out1)
    THEN IF F.at = "reobserve"
         THEN ActResult(els, check_transport_err(F.msg), 1, 1, els[idx + 1].node, NoNode, out1.msg)
         ELSE mcp_retry(op, observe(d), d, idx, F, els[idx + 1].node, out1.msg)
    ELSE ActResult(els, check_transport_err(out1.msg), 1, 0, els[idx + 1].node, NoNode, out1.msg)

\* resolve_target for an index, then the first attempt.
mcp_resolved(op, els, d, idx, F) ==
    IF idx >= Len(els)
    THEN ActResult(els, invalid_params("out of range"), 0, 0, NoNode, NoNode, "")
    ELSE mcp_tried(op, els, d, idx, F, mcp_attempt(op, d, els[idx + 1].selector, FaultAt(F, "act")))

\* The body of click / fill once a tab is at hand: observe when the cache is
\* empty, resolve, act.
mcp_act(op, els, d, idx, F) ==
    IF els = <<>>
    THEN IF F.at = "observe"
         THEN ActResult(els, check_transport_err(F.msg), 0, 0, NoNode, NoNode, "")
         ELSE mcp_resolved(op, observe(d), d, idx, F)
    ELSE mcp_resolved(op, els, d, idx, F)

\* The body of select once a tab is at hand; every error goes through err.
mcp_selected(els, d, idx, val, F) ==
    IF idx >= Len(els)
    THEN ActResult(els, invalid_params("out of range"), 0, 0, NoNode, NoNode, "")
    ELSE IF F.at = "act"
    THEN ActResult(els, err(F.msg), 1, 0, els[idx + 1].node, NoNode, F.msg)
    ELSE IF SelectJs(d, els[idx + 1].selector, val, idx, FALSE).ok
    THEN ActResult(<<>>, text_ok, 1, 0, els[idx + 1].node,
                   SelectJs(d, els[idx + 1].selector, val, idx, FALSE).acted, "")
    ELSE IF SelectJs(d, els[idx + 1].selector, val, idx, FALSE).err = "JsException"
    THEN ActResult(els, err("options is not iterable"), 1, 0, els[idx + 1].node, NoNode,
                   "options is not iterable")
    ELSE ActResult(els, invalid_params("option not found"), 1, 0, els[idx + 1].node, NoNode,
                   "option not found")

mcp_select(els, d, idx, val, F) ==
    IF els = <<>>
    THEN IF F.at = "observe"
         THEN ActResult(els, err(F.msg), 0, 0, NoNode, NoNode, "")
         ELSE mcp_selected(observe(d), d, idx, val, F)
    ELSE mcp_selected(els, d, idx, val, F)

\* What ret records of a tool call: the tool and its index, the result, whether
\* the returned error is of the transport class, the ActResult counters,
\* whether the call went through ensure_browser, whether that closed a
\* browser, and the generation of the browser whose tab the call used (0 when
\* it used none).
ToolReturn(op, idx, res, a, entered, closed, tabgen) ==
    [op |-> op, index |-> idx, ok |-> res.ok, msg |-> res.msg,
     transport |-> ~res.ok /\ is_transport_error(res.msg),
     attempts |-> a.attempts, reobserved |-> a.reobserved, named |-> a.named,
     acted |-> a.acted, first |-> a.first,
     entered |-> entered, closed |-> closed, tabgen |-> tabgen]

NoAct == ActResult(<<>>, text_ok, 0, 0, NoNode, NoNode, "")

\* A tool whose ensure_browser needs a launch is taken while launches remain.
CanEnsure == (server.up /\ ~server.unhealthy) \/ server.gen < MaxGen

\* After ensure_browser returned eb: the tool ends with result res, having
\* used no tab.
EndsBeforeTab(op, idx, eb, res) ==
    /\ server' = eb.server
    /\ dom' = IF eb.server = server THEN dom ELSE <<>>
    /\ elements' = IF eb.server = server THEN elements ELSE <<>>
    /\ ret' = ToolReturn(op, idx, res, NoAct, TRUE, server.up /\ eb.server # server, 0)

\* EokaServer::click and EokaServer::fill (op says which).
Mcp_act(op, idx, F) ==
    /\ kind = "EokaServer"
    /\ CanEnsure
    /\ IF ~ensure_browser(server, F).ok
       THEN EndsBeforeTab(op, idx, ensure_browser(server, F), err(F.msg))
       ELSE IF ~ensure_browser(server, F).server.tab
       THEN EndsBeforeTab(op, idx, ensure_browser(server, F), err("No tab open"))
       ELSE LET a == mcp_act(op, elements, dom, idx, F) IN
            /\ server' = [server EXCEPT !.unhealthy = @ \/ a.res.marks]
            /\ elements' = a.elements
            /\ dom' = dom
            /\ ret' = ToolReturn(op, idx, a.res, a, TRUE, FALSE, server.gen)
    /\ UNCHANGED <<pc, kind, site, overlays, last>>

Mcp_click(idx, F) == Mcp_act("click", idx, F)

Mcp_fill(idx, F) == Mcp_act("fill", idx, F)

\* A tool that takes the state without ensure_browser and finds no browser or
\* no tab.
NoBrowserOrTab(op, idx) ==
    /\ ~(server.up /\ server.tab)
    /\ ret' = ToolReturn(op, idx, err(IF server.up THEN "No tab open" ELSE "No browser open"),
                         NoAct, FALSE, FALSE, 0)
    /\ UNCHANGED <<server, dom, elements>>

\* EokaServer::select.
Mcp_select(idx, val, F) ==
    /\ kind = "EokaServer"
    /\ \/ NoBrowserOrTab("select", idx)
       \/ /\ server.up /\ server.tab
          /\ LET a == mcp_select(elements, dom, idx, val, F) IN
             /\ elements' = a.elements
             /\ ret' = ToolReturn("select", idx, a.res, a, FALSE, FALSE, server.gen)
          /\ UNCHANGED <<server, dom>>
    /\ UNCHANGED <<pc, kind, site, overlays, last>>

\* EokaServer::observe.
Mcp_observe(F) ==
    /\ kind = "EokaServer"
    /\ \/ NoBrowserOrTab("observe", -1)
       \/ /\ server.up /\ server.tab
          /\ elements' = IF F.at = "observe" THEN elements ELSE observe(dom)
          /\ server' = [server EXCEPT !.unhealthy = @ \/ (F.at = "observe" /\ is_transport_error(F.msg))]
          /\ ret' = ToolReturn("observe", -1,
                               IF F.at = "observe" THEN check_transport_err(F.msg) ELSE text_ok,
                               NoAct, FALSE, FALSE, server.gen)
          /\ dom' = dom
    /\ UNCHANGED <<pc, kind, site, overlays, last>>

\* EokaServer::navigate: ensure_browser, ensure_tab (navigate the current tab
\* or open the first one), then the url and title queries.
Mcp_navigate(F) ==
    /\ kind = "EokaServer"
    /\ CanEnsure
    /\ IF ~ensure_browser(server, F).ok
       THEN EndsBeforeTab("navigate", -1, ensure_browser(server, F), err(F.msg))
       ELSE /\ elements' = <<>>
            /\ IF F.at = "goto"
               THEN /\ server' = [ensure_browser(server, F).server
                                    EXCEPT !.unhealthy = @ \/ is_transport_error(F.msg)]
                    /\ dom' = IF ensure_browser(server, F).server.tab THEN dom ELSE <<>>
               ELSE /\ server' = [ensure_browser(server, F).server EXCEPT !.tab = TRUE]
                    /\ dom' \in LoadablePages
            /\ ret' = ToolReturn("navigate", -1,
                                 IF F.at = "goto" THEN check_transport_err(F.msg)
                                 ELSE IF F.at = "title" THEN err(F.msg)
                                 ELSE text_ok,
                                 NoAct, TRUE, server.up /\ server.unhealthy,
                                 ensure_browser(server, F).server.gen)
    /\ UNCHANGED <<pc, kind, site, overlays, last>>

\* EokaServer::close: the state is taken, then the browser closed.
Mcp_close(F) ==
    /\ kind = "EokaServer"
    /\ server' = [up |-> FALSE, unhealthy |-> FALSE, tab |-> FALSE, gen |-> server.gen]
    /\ dom' = <<>>
    /\ elements' = <<>>
    /\ ret' = ToolReturn("close", -1,
                         IF server.up /\ F.at = "close" THEN err(F.msg) ELSE text_ok,
                         NoAct, FALSE, server.up, 0)
    /\ UNCHANGED <<pc, kind, site, overlays, last>>

\* --------------------------------------------------------- text truncation
\* The text of an element in OBSERVE_JS.  A string is the sequence of its
\* UTF-16 units; Ellipsis stands for the one-unit character U+2026.
MaxText == 82

TextLimit == 60
TextKeep == 57
ButtonTextLimit == 80

Ellipsis == "U+2026"

Repeat(c, n) == [i \in 1..n |-> c]

ThreeDots == Repeat(".", 3)

\* String.prototype.substring(a, b) for 0 <= a <= b.
substring(s, a, b) == SubSeq(s, a + 1, Min(b, Len(s)))

\* The text before truncation: aria-label if there is one, else the content
\* (dropped for a link or button when longer than 80), else the label.
meaningful_text(tag, aria, content) ==
    IF aria # <<>> THEN aria
    ELSE IF tag \in {"a", "button"}
    THEN (IF Len(content) > ButtonTextLimit THEN <<>> ELSE content)
    ELSE content

\* Variant of the truncation that keeps one character more.
truncate_text_keeping_more(text) ==
    IF Len(text) > TextLimit THEN substring(text, 0, TextKeep + 1) \o ThreeDots ELSE text

\* if (text.length > 60) text = text.substring(0, 57) + '...';
truncate_text(text) ==
    IF Len(text) > TextLimit THEN substring(text, 0, TextKeep) \o ThreeDots ELSE text

\* Texts a page can hold: n equal characters followed by k full stops.
PageTexts ==
    {Repeat(c, n) \o Repeat(".", k) : c \in {"a", Ellipsis}, n \in 0..MaxText, k \in {0, 3}}

TextInputs == [tag : {"button", "div", "input"}, aria : BOOLEAN, text : PageTexts]

EmitText ==
    /\ ret.op = "input"
    /\ LET src == meaningful_text(ret.input.tag,
                                  IF ret.input.aria THEN ret.input.text ELSE <<>>,
                                  IF ret.input.aria THEN <<>> ELSE ret.input.text)
       IN ret' = [op |-> "text", input |-> ret.input, source |-> src, out |-> truncate_text(src)]
    /\ UNCHANGED <<server, pc, kind, site, dom, elements, overlays, last>>

\* ------------------------------------------------------------ MCP tab set
\* BrowserState.tabs and BrowserState.current_tab_id.  Here `server` is
\* [tabs, current, next]: the keys of the tabs map, the current tab id
\* (NoTab for None) and the target id the browser gives its next page.
MaxTabIds == 3

NoTab == 0

TabIds == 1..MaxTabIds

NoTabs == [tabs |-> {}, current |-> NoTab, next |-> 1]

\* The browser calls of the tab tools that can fail.
TabCalls == {"goto", "new_page", "activate", "close_tab", "title"}

TabFaults == {"none"} \cup TabCalls

\* What ret records of a tab tool: the tool, the tab id it was given, whether
\* it returned Ok, and whether it panicked.
TabReturn(op, id, ok) == [op |-> op, id |-> id, ok |-> ok, panic |-> FALSE]

TabPanic(op, id) == [op |-> op, id |-> id, ok |-> FALSE, panic |-> TRUE]

TabUnchanged == UNCHANGED <<pc, kind, site, dom, elements, overlays, last>>

\* EokaServer::navigate over BrowserState::ensure_tab: navigate the current
\* tab, or open the first one; then self.tabs.get_mut(&tab_id).unwrap().
Tab_navigate(F) ==
    /\ kind = "EokaServer"
    /\ IF server.current # NoTab
       THEN IF server.current \in server.tabs /\ F = "goto"
            THEN /\ server' = server
                 /\ ret' = TabReturn("navigate", NoTab, FALSE)
            ELSE IF server.current \notin server.tabs
            THEN /\ server' = server
                 /\ ret' = TabPanic("navigate", NoTab)
            ELSE /\ server' = server
                 /\ ret' = TabReturn("navigate", NoTab, F # "title")
       ELSE IF F = "new_page"
            THEN /\ server' = server
                 /\ ret' = TabReturn("navigate", NoTab, FALSE)
            ELSE /\ server.next \in TabIds
                 /\ server' = [tabs |-> server.tabs \cup {server.next},
                               current |-> server.next, next |-> server.next + 1]
                 /\ ret' = TabReturn("navigate", NoTab, F # "title")
    /\ TabUnchanged

\* EokaServer::new_tab over BrowserState::new_tab.
Tab_new_tab(F) ==
    /\ kind = "EokaServer"
    /\ IF F = "new_page"
       THEN /\ server' = server
            /\ ret' = TabReturn("new_tab", NoTab, FALSE)
       ELSE /\ server.next \in TabIds
            /\ server' = [tabs |-> server.tabs \cup {server.next},
                          current |-> IF F = "activate" THEN server.current ELSE server.next,
                          next |-> server.next + 1]
            /\ ret' = TabReturn("new_tab", server.next, F \notin {"activate", "title"})
    /\ TabUnchanged

\* EokaServer::switch_tab over BrowserState::switch_tab; then
\* state.current_tab().unwrap().
Tab_switch_tab(id, F) ==
    /\ kind = "EokaServer"
    /\ IF id \notin server.tabs \/ F = "activate"
       THEN /\ server' = server
            /\ ret' = TabReturn("switch_tab", id, FALSE)
       ELSE /\ server' = [server EXCEPT !.current = id]
            /\ ret' = TabReturn("switch_tab", id, F # "title")
    /\ TabUnchanged

\* Variant of close_tab without the test for the last tab.
BrowserState_close_tab_any(s, id, F, other) ==
    IF id \notin s.tabs \/ F = "close_tab"
    THEN [server |-> s, ok |-> FALSE]
    ELSE [server |-> [s EXCEPT !.tabs = @ \ {id},
                               !.current = IF s.current = id THEN other ELSE @],
          ok |-> ~(s.current = id /\ other # NoTab /\ F = "activate")]

\* Variant of close_tab that leaves current_tab_id alone.
BrowserState_close_tab_keeping_current(s, id, F, other) ==
    IF Cardinality(s.tabs) <= 1 THEN [server |-> s, ok |-> FALSE]
    ELSE IF id \notin s.tabs \/ F = "close_tab"
    THEN [server |-> s, ok |-> FALSE]
    ELSE [server |-> [s EXCEPT !.tabs = @ \ {id}], ok |-> TRUE]

\* BrowserState::close_tab.  `other` is the key that self.tabs.keys().next()
\* yields after the removal (NoTab when there is none).
BrowserState_close_tab(s, id, F, other) ==
    IF Cardinality(s.tabs) <= 1 THEN [server |-> s, ok |-> FALSE]
    ELSE IF id \notin s.tabs \/ F = "close_tab"
    THEN [server |-> s, ok |-> FALSE]
    ELSE [server |-> [s EXCEPT !.tabs = @ \ {id},
                               !.current = IF s.current = id THEN other ELSE @],
          ok |-> ~(s.current = id /\ other # NoTab /\ F = "activate")]

\* The keys self.tabs.keys().next() can yield once id is removed.
NextKeys(s, id) == IF s.tabs \ {id} = {} THEN {NoTab} ELSE s.tabs \ {id}

\* EokaServer::close_tab.
Tab_close_tab(id, F) ==
    /\ kind = "EokaServer"
    /\ \E other \in NextKeys(server, id) :
          /\ server' = BrowserState_close_tab(server, id, F, other).server
          /\ ret' = TabReturn("close_tab", id, BrowserState_close_tab(server, id, F, other).ok)
    /\ TabUnchanged

\* --------------------------------------------------------------- the runner
\* Runner::run_with_base_path.  `ret` is the frame of the call: the config's
\* retry.attempts (NoRetry when on_failure.retry is absent), the loop
\* variable, the locals, the attempts started so far, and the RunResult once
\* returned.
MaxAttempts == 4
MaxActions == 2

NoRetry == -1

\* Config.on_failure.retry.attempts of the configs run: absent, or a u32.
RetryAttempts == {NoRetry} \cup 0..MaxAttempts

\* Config::validate, the retry part.
validate(retry) == retry # 0

\* What run_once returns.
RunOnceOutcomes == {"success", "unmet", "error"}

NoResult == [success |-> FALSE, error |-> "none", actions_executed |-> 0, retries |-> -1]

RunFrame(retry) ==
    [op |-> "run", retry |-> retry,
     max_attempts |-> IF retry = NoRetry THEN 1 ELSE retry,
     attempt |-> 0, retries |-> 0, last_error |-> "none", last_actions_executed |-> 0,
     started |-> 0, succeeded |-> FALSE, failure_handled |-> FALSE,
     returned |-> FALSE, result |-> NoResult]

\* Variant of the loop body that counts the first attempt as a retry.
RunAttempt_counting_first(f, outcome, actions) ==
    [f EXCEPT
        !.attempt = @ + 1,
        !.started = @ + 1,
        !.retries = @ + 1,
        !.succeeded = outcome = "success",
        !.returned = outcome = "success",
        !.result = IF outcome = "success"
                   THEN [success |-> TRUE, error |-> "none", actions_executed |-> actions,
                         retries |-> f.retries + 1]
                   ELSE @,
        !.last_error = IF outcome = "success" THEN @
                       ELSE IF outcome = "unmet" THEN "success conditions not met" ELSE "error",
        !.last_actions_executed = IF outcome = "unmet" THEN actions ELSE @,
        !.failure_handled = outcome # "success" /\ f.attempt + 1 = f.max_attempts]

\* One iteration of `for attempt in 1..=max_attempts`: run_once returned
\* `outcome` after `actions` actions.
RunAttempt(f, outcome, actions) ==
    [f EXCEPT
        !.attempt = @ + 1,
        !.started = @ + 1,
        !.retries = IF f.attempt + 1 > 1 THEN @ + 1 ELSE @,
        !.succeeded = outcome = "success",
        !.returned = outcome = "success",
        !.result = IF outcome = "success"
                   THEN [success |-> TRUE, error |-> "none", actions_executed |-> actions,
                         retries |-> IF f.attempt + 1 > 1 THEN f.retries + 1 ELSE f.retries]
                   ELSE @,
        !.last_error = IF outcome = "success" THEN @
                       ELSE IF outcome = "unmet" THEN "success conditions not met" ELSE "error",
        !.last_actions_executed = IF outcome = "unmet" THEN actions ELSE @,
        !.failure_handled = outcome # "success" /\ f.attempt + 1 = f.max_attempts]

RunnerUnchanged == UNCHANGED <<server, pc, kind, site, dom, elements, overlays, last>>

Runner_attempt(outcome, actions) ==
    /\ ret.op = "run"
    /\ ~ret.returned
    /\ ret.attempt < ret.max_attempts
    /\ ret' = RunAttempt(ret, outcome, actions)
    /\ RunnerUnchanged

\* The loop is exhausted: the failing RunResult is returned.
Runner_return ==
    /\ ret.op = "run"
    /\ ~ret.returned
    /\ ret.attempt >= ret.max_attempts
    /\ ret' = [ret EXCEPT !.returned = TRUE,
                          !.result = [success |-> FALSE, error |-> ret.last_error,
                                      actions_executed |-> ret.last_actions_executed,
                                      retries |-> ret.retries]]
    /\ RunnerUnchanged

\* ---------------------------------------------------- config parameters
\* params::substitute.  A string is a sequence of tokens: "${", "}", and the
\* one-letter texts "a" and "b", which are also the parameter names.  A
\* setup says which of the two names the caller supplied (a as "1", b as "2")
\* and how the config declares a: not at all, with a default ("D"), required
\* without default, optional without default, or required with a default;
\* b is never declared.
MaxTemplate == 5

TemplateTokens == {"${", "}", "a", "b"}

Templates == UNION {[1..k -> TemplateTokens] : k \in 0..MaxTemplate}

ParamNames == {"a", "b"}

Declarations == {"undeclared", "default", "required", "optional", "required_default"}

ParamSetups == [a : BOOLEAN, b : BOOLEAN, def : Declarations]

\* Params::get.
params_has(cfg, name) == (name = <<"a">> /\ cfg.a) \/ (name = <<"b">> /\ cfg.b)

params_get(cfg, name) == IF name = <<"a">> THEN <<"1">> ELSE <<"2">>

\* defs.get(var_name) and the fields of the ParamDef found.
defs_has(cfg, name) == name = <<"a">> /\ cfg.def # "undeclared"

def_has_default(cfg) == cfg.def \in {"default", "required_default"}

def_required(cfg) == cfg.def \in {"required", "required_default"}

\* str::find from position `start` (1-based; 0 when there is no match).
FindFrom(s, tok, start) ==
    IF \E i \in start..Len(s) : s[i] = tok
    THEN CHOOSE i \in start..Len(s) : s[i] = tok /\ \A j \in start..(i - 1) : s[j] # tok
    ELSE 0

\* String::replace_range(var_start..=var_end, value).
replace_range(s, a, b, value) == SubSeq(s, 1, a - 1) \o value \o SubSeq(s, b + 1, Len(s))

SubstOk(s) == [ok |-> TRUE, out |-> s, error |-> <<>>]

SubstErr(name) == [ok |-> FALSE, out |-> <<>>, error |-> name]

\* Variant of the loop of substitute that prefers the declared default to the
\* supplied value.
RECURSIVE substitute_from_default_first(_, _, _)
substitute_from_default_first(result, start, cfg) ==
    LET var_start == FindFrom(result, "${", start)
        var_end == FindFrom(result, "}", var_start)
        var_name == SubSeq(result, var_start + 1, var_end - 1)
    IN  IF var_start = 0 \/ var_end = 0 THEN SubstOk(result)
        ELSE IF defs_has(cfg, var_name) /\ def_has_default(cfg)
        THEN substitute_from_default_first(replace_range(result, var_start, var_end, <<"D">>),
                                           var_start + 1, cfg)
        ELSE IF params_has(cfg, var_name)
        THEN substitute_from_default_first(
                 replace_range(result, var_start, var_end, params_get(cfg, var_name)),
                 var_start + 1, cfg)
        ELSE IF defs_has(cfg, var_name)
        THEN IF def_required(cfg) THEN SubstErr(var_name)
             ELSE substitute_from_default_first(replace_range(result, var_start, var_end, <<>>),
                                                var_start, cfg)
        ELSE substitute_from_default_first(result, var_end + 1, cfg)

\* The loop of substitute: `result` so far, scanned from `start`.
RECURSIVE substitute_from(_, _, _)
substitute_from(result, start, cfg) ==
    LET var_start == FindFrom(result, "${", start)
        var_end == FindFrom(result, "}", var_start)
        var_name == SubSeq(result, var_start + 1, var_end - 1)
    IN  IF var_start = 0 \/ var_end = 0 THEN SubstOk(result)
        ELSE IF params_has(cfg, var_name)
        THEN substitute_from(replace_range(result, var_start, var_end, params_get(cfg, var_name)),
                             var_start + 1, cfg)
        ELSE IF defs_has(cfg, var_name)
        THEN IF def_has_default(cfg)
             THEN substitute_from(replace_range(result, var_start, var_end, <<"D">>),
                                  var_start + 1, cfg)
             ELSE IF def_required(cfg) THEN SubstErr(var_name)
             ELSE substitute_from(replace_range(result, var_start, var_end, <<>>),
                                  var_start, cfg)
        ELSE substitute_from(result, var_end + 1, cfg)

substitute(template, cfg) == substitute_from(template, 1, cfg)

Substitute ==
    /\ ret.op = "input"
    /\ ret' = [op |-> "substitute", template |-> ret.template, cfg |-> ret.cfg,
               res |-> substitute(ret.template, ret.cfg)]
    /\ UNCHANGED <<server, pc, kind, site, dom, elements, overlays, last>>

\* ------------------------------------------------------------ email links
\* extract_first_link (eoka-email): the links of a message body in order of
\* appearance, each reduced to the host url::Url::parse reports for it.  A
\* host is a sequence of characters, so that ends_with compares characters
\* as str::ends_with does.
MaxHost == 3
MaxLinks == 2
MaxDomain == 2

HostChars == {"a", "b", "."}

\* Non-empty labels separated by single dots.
IsHost(h) ==
    /\ Len(h) > 0
    /\ h[1] # "." /\ h[Len(h)] # "."
    /\ \A i \in 1..(Len(h) - 1) : ~(h[i] = "." /\ h[i + 1] = ".")

Hosts == { h \in UNION { [1..n -> HostChars] : n \in 1..MaxHost } : IsHost(h) }

\* A link url::Url::parse rejects, or one without a host.
NoHost == << >>

Links == Hosts \cup {NoHost}

Bodies == UNION { [1..n -> Links] : n \in 0..MaxLinks }

AllowDomains == { h \in Hosts : Len(h) <= MaxDomain }

\* allow_domains: None or an empty vector (the empty set), or up to two
\* domains.
AllowLists == { s \in SUBSET AllowDomains : Cardinality(s) <= 2 }

ends_with(host, d) ==
    /\ Len(d) <= Len(host)
    /\ SubSeq(host, Len(host) - Len(d) + 1, Len(host)) = d

link_allowed(link, allow) ==
    IF allow = {} THEN TRUE
    ELSE IF link = NoHost THEN FALSE
    ELSE \E d \in allow : ends_with(link, d)

NoLink == [found |-> FALSE, link |-> NoHost]

RECURSIVE extract_first_link_from(_, _, _)
extract_first_link_from(body, i, allow) ==
    IF i > Len(body) THEN NoLink
    ELSE IF link_allowed(body[i], allow)
         THEN [found |-> TRUE, link |-> body[i]]
         ELSE extract_first_link_from(body, i + 1, allow)

extract_first_link(body, allow) == extract_first_link_from(body, 1, allow)

ExtractFirstLink ==
    /\ ret.op = "input"
    /\ ret' = [op |-> "extract_first_link", body |-> ret.body,
               allow |-> ret.allow,
               res |-> extract_first_link(ret.body, ret.allow)]
    /\ UNCHANGED <<server, pc, kind, site, dom, elements, overlays, last>>

\* ------------------------------------------------- MCP handlers in parallel
\* Tool handlers of one EokaServer run as separate tasks that share
\* state: Arc<Mutex<Option<BrowserState>>>.  Each action below is one
\* critical section: the span a handler holds the state lock.  Here server is
\* [up, unhealthy], pc[h] is where handler task h stands and ret records what
\* each task's latest call returned.
MaxCalls == 4

Handlers == {1, 2}

\* The tools that call ensure_browser and then lock the state again.
EnsuringTools == {"list_tabs", "new_tab", "navigate"}

\* The tools that lock the state once and report ERR_NO_BROWSER.
LockingTools == {"switch_tab", "close_tab"}

RaceIdle == [at |-> "idle", tool |-> "none"]

RaceNoState == [up |-> FALSE, unhealthy |-> FALSE]

RaceOut(tool, outcome) == [tool |-> tool, outcome |-> outcome]

RaceUnchanged == UNCHANGED <<kind, site, dom, elements, overlays, last>>

RaceFinish(h, tool, outcome) ==
    /\ pc' = [pc EXCEPT ![h] = RaceIdle]
    /\ ret' = [ret EXCEPT !.out[h] = RaceOut(tool, outcome)]

RaceStart(h) == pc[h].at = "idle" /\ ret.calls < MaxCalls

\* ensure_browser: under the lock, an unhealthy state is taken and closed,
\* and an absent state is replaced by a freshly launched one.  The lock is
\* released when ensure_browser returns.
Race_ensure_browser(h, tool, launched) ==
    /\ RaceStart(h)
    /\ LET taken == IF server.unhealthy THEN RaceNoState ELSE server
       IN IF taken.up
          THEN /\ server' = taken
               /\ pc' = [pc EXCEPT ![h] = [at |-> "ensured", tool |-> tool]]
               /\ ret' = [ret EXCEPT !.calls = @ + 1]
          ELSE IF launched
          THEN /\ server' = [up |-> TRUE, unhealthy |-> FALSE]
               /\ pc' = [pc EXCEPT ![h] = [at |-> "ensured", tool |-> tool]]
               /\ ret' = [ret EXCEPT !.calls = @ + 1]
          ELSE /\ server' = taken
               /\ pc' = [pc EXCEPT ![h] = RaceIdle]
               /\ ret' = [calls |-> ret.calls + 1,
                          out |-> [ret.out EXCEPT ![h] = RaceOut(tool, "err")]]
    /\ RaceUnchanged

\* The handler locks the state again and unwraps it.  An absent state
\* panics the task; navigate's transport error leaves the lock to mark the
\* state unhealthy in check_transport_err.
Race_locked(h, outcome) ==
    /\ pc[h].at = "ensured"
    /\ IF ~server.up
       THEN RaceFinish(h, pc[h].tool, "panic")
       ELSE IF outcome = "transport" /\ pc[h].tool = "navigate"
       THEN /\ pc' = [pc EXCEPT ![h] = [at |-> "failed", tool |-> pc[h].tool]]
            /\ UNCHANGED ret
       ELSE RaceFinish(h, pc[h].tool, IF outcome = "ok" THEN "ok" ELSE "err")
    /\ UNCHANGED server
    /\ RaceUnchanged

\* check_transport_err: lock, mark a present state unhealthy, return the
\* error.
Race_check_transport_err(h) ==
    /\ pc[h].at = "failed"
    /\ server' = IF server.up THEN [server EXCEPT !.unhealthy = TRUE] ELSE server
    /\ RaceFinish(h, pc[h].tool, "err")
    /\ RaceUnchanged

\* close: the state is taken whatever closing the browser returns.
Race_close(h, closed) ==
    /\ RaceStart(h)
    /\ server' = RaceNoState
    /\ pc' = [pc EXCEPT ![h] = RaceIdle]
    /\ ret' = [calls |-> ret.calls + 1,
               out |-> [ret.out EXCEPT ![h] =
                   RaceOut("close", IF server.up /\ ~closed THEN "err" ELSE "ok")]]
    /\ RaceUnchanged

\* switch_tab, close_tab: one critical section, ERR_NO_BROWSER without state.
Race_locking_tool(h, tool, done) ==
    /\ RaceStart(h)
    /\ pc' = [pc EXCEPT ![h] = RaceIdle]
    /\ ret' = [calls |-> ret.calls + 1,
               out |-> [ret.out EXCEPT ![h] =
                   RaceOut(tool, IF server.up /\ done THEN "ok" ELSE "err")]]
    /\ UNCHANGED server
    /\ RaceUnchanged

\* ---------------------------------------------------------------- MCP batch
\* EokaServer::batch: the actions run in order under one lock; click and
\* fill targets go through resolve_target, an index against the tab's cache.
MaxBatch == 2

BatchKinds == {"click", "fill", "type_key"}

\* One BatchAction; target is an index (type_key has none, written 0).
BatchActions ==
    { a \in [action : BatchKinds, target : Indices] :
        a.action = "type_key" => a.target = 0 }

BatchRequests == UNION { [1..n -> BatchActions] : n \in 1..MaxBatch }

\* The step whose page call fails, 0 for none.
BatchFaults == 0..MaxBatch

\* What happened during the call, in order: "resolve" (an index was resolved
\* in the cache), "click" / "fill" / "key" (the page call returned Ok),
\* "clear" (tab.elements.clear()).
BatchRun(ok, msg, els, events) ==
    [ok |-> ok, msg |-> msg, elements |-> els, events |-> events]

BatchReturn(actions, run) ==
    [op |-> "batch", index |-> -1, ok |-> run.ok, msg |-> run.msg,
     actions |-> actions, events |-> run.events]

RECURSIVE batch_from(_, _, _, _, _, _)
batch_from(actions, i, els, d, fault, events) ==
    IF i > Len(actions)
    THEN BatchRun(TRUE, "", << >>, Append(events, "clear"))
    ELSE IF actions[i].action = "type_key"
    THEN IF fault = i
         THEN BatchRun(FALSE, "protocol error", els, events)
         ELSE batch_from(actions, i + 1, els, d, fault, Append(events, "key"))
    ELSE IF actions[i].target >= Len(els)
    THEN BatchRun(FALSE, "out of range", els, events)
    ELSE LET out == mcp_attempt(actions[i].action, d, els[actions[i].target + 1].selector,
                                IF fault = i THEN "protocol error" ELSE "")
         IN IF out.ok
            THEN batch_from(actions, i + 1, els, d, fault,
                            events \o <<"resolve", actions[i].action>>)
            ELSE BatchRun(FALSE, out.msg, els, Append(events, "resolve"))

batch(actions, els, d, fault) == batch_from(actions, 1, els, d, fault, << >>)

\* EokaServer::batch.
Mcp_batch(actions, fault) ==
    /\ kind = "EokaServer"
    /\ IF ~(server.up /\ server.tab)
       THEN /\ ret' = BatchReturn(actions,
                         BatchRun(FALSE, IF server.up THEN "No tab open" ELSE "No browser open",
                                  elements, << >>))
            /\ elements' = elements
       ELSE LET run == batch(actions, elements, dom, fault) IN
            /\ ret' = BatchReturn(actions, run)
            /\ elements' = run.elements
    /\ UNCHANGED <<server, dom, pc, kind, site, overlays, last>>

\* ---------------------------------------------------------- the state lock
\* The tokio Mutex around Option<BrowserState>, with the handlers' waits for
\* it as steps of their own.  Here server is [owner, up, unhealthy, live]:
\* owner is the handler task holding the guard (NoOwner when free), live
\* counts the browser processes launched and not shut down; pc[h] is where
\* task h stands; ret[h] is what its latest call returned.
NoOwner == 0

\* click (like fill, navigate, page_text) calls ensure_browser first; observe
\* and screenshot lock at once; all of them hand a failed page call to
\* check_transport_err.  close takes the state.
LockTools == {"click", "observe", "screenshot", "close"}

LockFree == [owner |-> NoOwner, up |-> FALSE, unhealthy |-> FALSE, live |-> 0]

\* Browser::launch_with_config returned a browser.
Browser_launch(live) == live + 1

\* Browser::close: the child process is terminated, killed if need be.
Browser_close(live) == live - 1

LockAt(at, tool) == [at |-> at, tool |-> tool]

LockUnchanged == UNCHANGED <<kind, site, dom, elements, overlays, last>>

\* The handler is called.
Lock_call(h, tool) ==
    /\ pc[h].at = "idle"
    /\ pc' = [pc EXCEPT ![h] =
                 LockAt(IF tool = "click" THEN "ensure_wait" ELSE "wait", tool)]
    /\ UNCHANGED <<server, ret>>
    /\ LockUnchanged

\* self.state.lock().await returns the guard: the mutex was free.
Lock_acquire(h) ==
    /\ pc[h].at \in {"ensure_wait", "wait", "err_wait"}
    /\ server.owner = NoOwner
    /\ server' = [server EXCEPT !.owner = h]
    /\ pc' = [pc EXCEPT ![h] =
                 LockAt(CASE pc[h].at = "ensure_wait" -> "ensure_held"
                          [] pc[h].at = "wait" -> "held"
                          [] OTHER -> "err_held",
                        pc[h].tool)]
    /\ UNCHANGED ret
    /\ LockUnchanged

\* Variant of Lock_ensure_browser that takes an unhealthy state without
\* closing its browser.
Lock_ensure_browser_without_close(h, launched) ==
    /\ pc[h].at = "ensure_held"
    /\ LET up == server.up /\ ~server.unhealthy
           launch == ~up /\ launched
       IN
       /\ server' = [owner |-> NoOwner, up |-> up \/ launched, unhealthy |-> FALSE,
                     live |-> IF launch THEN Browser_launch(server.live) ELSE server.live]
       /\ IF up \/ launched
          THEN /\ pc' = [pc EXCEPT ![h] = LockAt("wait", pc[h].tool)]
               /\ UNCHANGED ret
          ELSE /\ pc' = [pc EXCEPT ![h] = LockAt("idle", "none")]
               /\ ret' = [ret EXCEPT ![h] = RaceOut(pc[h].tool, "err")]
    /\ LockUnchanged

\* ensure_browser under its guard, which is dropped when it returns: an
\* unhealthy state is taken and its browser closed, then an absent state is
\* replaced by a launched one.
Lock_ensure_browser(h, launched) ==
    /\ pc[h].at = "ensure_held"
    /\ LET up == server.up /\ ~server.unhealthy
           closed == IF server.up /\ server.unhealthy
                     THEN Browser_close(server.live) ELSE server.live
       IN
       /\ server' = [owner |-> NoOwner, up |-> up \/ launched, unhealthy |-> FALSE,
                     live |-> IF ~up /\ launched THEN Browser_launch(closed) ELSE closed]
       /\ IF up \/ launched
          THEN /\ pc' = [pc EXCEPT ![h] = LockAt("wait", pc[h].tool)]
               /\ UNCHANGED ret
          ELSE /\ pc' = [pc EXCEPT ![h] = LockAt("idle", "none")]
               /\ ret' = [ret EXCEPT ![h] = RaceOut(pc[h].tool, "err")]
    /\ LockUnchanged

\* Variant of Lock_body that calls check_transport_err with the guard still
\* held.
Lock_body_keeping_guard(h, outcome) ==
    /\ pc[h].at = "held"
    /\ IF pc[h].tool # "close" /\ server.up /\ outcome = "transport"
       THEN /\ server' = server
            /\ pc' = [pc EXCEPT ![h] = LockAt("err_wait", pc[h].tool)]
            /\ UNCHANGED ret
       ELSE /\ server' = [server EXCEPT !.owner = NoOwner]
            /\ pc' = [pc EXCEPT ![h] = LockAt("idle", "none")]
            /\ ret' = [ret EXCEPT ![h] = RaceOut(pc[h].tool, "err")]
    /\ LockUnchanged

\* The handler's work under its guard.  An absent state, a `?` and a
\* returned result drop the guard on return; a failed page call drops it
\* explicitly and goes on to check_transport_err, which locks again when the
\* error is of the transport class.
Lock_body(h, outcome) ==
    /\ pc[h].at = "held"
    /\ IF pc[h].tool = "close"
       THEN /\ server' = [LockFree EXCEPT !.live =
                            IF server.up THEN Browser_close(server.live) ELSE server.live]
            /\ pc' = [pc EXCEPT ![h] = LockAt("idle", "none")]
            /\ ret' = [ret EXCEPT ![h] =
                          RaceOut("close", IF server.up /\ outcome # "ok" THEN "err" ELSE "ok")]
       ELSE IF ~server.up
       THEN /\ server' = [server EXCEPT !.owner = NoOwner]
            /\ pc' = [pc EXCEPT ![h] = LockAt("idle", "none")]
            /\ ret' = [ret EXCEPT ![h] = RaceOut(pc[h].tool, "err")]
       ELSE IF outcome = "transport"
       THEN /\ server' = [server EXCEPT !.owner = NoOwner]
            /\ pc' = [pc EXCEPT ![h] = LockAt("err_wait", pc[h].tool)]
            /\ UNCHANGED ret
       ELSE /\ server' = [server EXCEPT !.owner = NoOwner]
            /\ pc' = [pc EXCEPT ![h] = LockAt("idle", "none")]
            /\ ret' = [ret EXCEPT ![h] = RaceOut(pc[h].tool, outcome)]
    /\ LockUnchanged

\* check_transport_err under its own guard.
Lock_check_transport_err(h) ==
    /\ pc[h].at = "err_held"
    /\ server' = [server EXCEPT !.owner = NoOwner,
                                !.unhealthy = server.unhealthy \/ server.up]
    /\ pc' = [pc EXCEPT ![h] = LockAt("idle", "none")]
    /\ ret' = [ret EXCEPT ![h] = RaceOut(pc[h].tool, "transport")]
    /\ LockUnchanged

\* What task h does while it holds the guard.
LockHolderStep(h) ==
    \/ \E launched \in BOOLEAN : Lock_ensure_browser(h, launched)
    \/ \E outcome \in {"ok", "err", "transport"} : Lock_body(h, outcome)
    \/ Lock_check_transport_err(h)

\* ----------------------------------------------------------- label placement
\* The label loop of the script annotated_screenshot injects: one label per
\* element, in the order of the elements, at one of four candidate positions.
MaxLabels == 3
labelH == 14

\* Bounding boxes {x, y, w, h} as the script receives them (integers).
LabelBoxes == [x : {0, 20}, y : {0, 20}, w : {10, 40}, h : {10}]

\* window.innerWidth / innerHeight: a window no larger than one label, and
\* one with room.
Viewports == { [vw |-> 15, vh |-> 14], [vw |-> 100, vh |-> 100] }

LabelInputs == UNION { [1..n -> LabelBoxes] : n \in 1..MaxLabels }

Max(a, b) == IF a >= b THEN a ELSE b

\* String(el.i).length
label_digits(i) == IF i < 10 THEN 1 ELSE IF i < 100 THEN 2 ELSE 3

labelW(i) == label_digits(i) * 7 + 8

clampX(v, vw, i) == Max(0, Min(v, vw - labelW(i)))

clampY(v, vh) == Max(0, Min(v, vh - labelH))

\* The four candidates of the element with index i and box el.
candidates(el, i, view) ==
    << <<clampX(el.x, view.vw, i), clampY(el.y - labelH - 1, view.vh)>>,
       <<clampX(el.x + el.w - labelW(i), view.vw, i), clampY(el.y - labelH - 1, view.vh)>>,
       <<clampX(el.x, view.vw, i), clampY(el.y + el.h + 1, view.vh)>>,
       <<clampX(el.x + 2, view.vw, i), clampY(el.y + 2, view.vh)>> >>

\* The test of the inner loop: the label at c meets a placed rectangle.
overlaps(c, i, placed) ==
    \E k \in 1..Len(placed) :
        /\ c[1] < placed[k][1] + placed[k][3]
        /\ c[1] + labelW(i) > placed[k][1]
        /\ c[2] < placed[k][2] + placed[k][4]
        /\ c[2] + labelH > placed[k][2]

\* Variant of best_candidate that takes the inside position whenever the
\* first candidate overlaps.
best_candidate_inside(cands, j, i, placed) ==
    IF ~overlaps(cands[1], i, placed) THEN cands[1]
    ELSE IF ~overlaps(cands[4], i, placed) THEN cands[4]
    ELSE cands[1]

\* The scan `for (const [cx, cy] of candidates)` from candidate j on: best
\* starts as candidates[0] and is replaced by the first candidate that does
\* not overlap.
RECURSIVE best_candidate(_, _, _, _)
best_candidate(cands, j, i, placed) ==
    IF j > Len(cands) THEN cands[1]
    ELSE IF ~overlaps(cands[j], i, placed) THEN cands[j]
    ELSE best_candidate(cands, j + 1, i, placed)

\* The loop over data: placed after the elements from position k on.
RECURSIVE place_labels(_, _, _, _)
place_labels(els, k, view, placed) ==
    IF k > Len(els) THEN placed
    ELSE LET best == best_candidate(candidates(els[k], k - 1, view), 1, k - 1, placed)
         IN place_labels(els, k + 1, view,
                         Append(placed, <<best[1], best[2], labelW(k - 1), labelH>>))

InjectLabels ==
    /\ ret.op = "input"
    /\ ret' = [op |-> "labels", els |-> ret.els, view |-> ret.view,
               placed |-> place_labels(ret.els, 1, ret.view, << >>)]
    /\ UNCHANGED <<server, pc, kind, site, dom, elements, overlays, last>>

\* ------------------------------------------------------------ specifications
Next ==
    \/ \E n \in Nids, pos \in 1..MaxDom : PageInsert(n, pos)
    \/ \E pos \in 1..MaxDom : PageRemove(pos)
    \/ \E fails \in BOOLEAN : Observe(fails)
    \/ \E index \in Indices, F \in Calls : Session_click(index, F)
    \/ \E index \in Indices, F \in Calls : Session_fill(index, F)
    \/ \E index \in Indices, F \in Calls, val \in OptionValues :
            Session_select(index, val, F)
    \/ \E index \in Indices, F \in Calls : Session_hover(index, F)
    \/ \E index \in Indices, F \in Calls : Session_scroll_to(index, F)
    \/ \E index \in Indices, fails \in BOOLEAN : AgentPage_click(index, fails)
    \/ \E index \in Indices, fails \in BOOLEAN : AgentPage_fill(index, fails)
    \/ \E index \in Indices, fails \in BOOLEAN, val \in OptionValues :
            AgentPage_select(index, val, fails)
    \/ \E index \in Indices, fails \in BOOLEAN : AgentPage_hover(index, fails)
    \/ \E index \in Indices, fails \in BOOLEAN : AgentPage_scroll_to(index, fails)
    \/ \E index \in Indices, fails \in BOOLEAN : AgentPage_click_and_wait(index, fails)
    \/ \E fails \in BOOLEAN : Goto(fails)
    \/ \E fails \in BOOLEAN : Back(fails)
    \/ \E fails \in BOOLEAN : Forward(fails)
    \/ \E fails \in BOOLEAN : AgentPage_reload(fails)
    \/ \E F \in Calls, scriptOk \in BOOLEAN : SpaNavigate(F, scriptOk)
    \/ \E fails \in BOOLEAN, scriptOk \in BOOLEAN : HistoryGo(fails, scriptOk)

Spec == Init /\ [][Next]_vars

\* The same machine with the annotated screenshot among the operations.
NextShot ==
    \/ Next
    \/ \E stage \in Stages : Screenshot(stage)

SpecShot == Init /\ [][NextShot]_vars

\* The same machine with observe_diff among the operations.
NextDiff ==
    \/ Next
    \/ \E fails \in BOOLEAN : AgentPage_observe_diff(fails)

SpecDiff == Init /\ [][NextDiff]_vars

\* A Session with wait_for_stable as a process of its own: the caller is
\* suspended while it waits, the page keeps changing.
WaitStep ==
    \/ \E network \in NetworkIdleOutcomes : WaitForStable_network_idle(network)
    \/ WaitForStable_return

NextSettle ==
    \/ WaitForStable_enter
    \/ WaitStep
    \/ \E n \in Nids, pos \in 1..MaxDom : PageInsert(n, pos)
    \/ \E pos \in 1..MaxDom : PageRemove(pos)
    \/ pc = "idle" /\ \E fails \in BOOLEAN : Goto(fails)
    \/ pc = "idle" /\ \E fails \in BOOLEAN : Observe(fails)
    \/ pc = "idle" /\ \E index \in Indices, F \in Calls : Session_click(index, F)
    \/ pc = "idle" /\ \E index \in Indices, F \in Calls : Session_fill(index, F)

\* A Session: its goto, click and fill are the callers of wait_for_stable.
InitSettle == Init /\ kind = "Session"

\* The idle wait is bounded by its timeout and page.wait by its duration, so
\* a step of the wait that is due is eventually taken.
SpecSettle == InitSettle /\ [][NextSettle]_vars /\ WF_vars(WaitStep)

\* A function applied to an input: nothing of the browser is involved, ret
\* holds the input and then the result.
InitPure ==
    /\ kind = "AgentPage"
    /\ site = 1
    /\ dom = <<>>
    /\ elements = <<>>
    /\ overlays = 0
    /\ last = Returned("launch", -1, Ok(FALSE, NoNode))
    /\ server = NoServer
    /\ pc = "idle"

\* Target::parse applied to every target string of the bounded set.
InitParse == InitPure /\ ret \in {[op |-> "input", input |-> s] : s \in TargetStrings}

NextParse == ParseTarget

SpecParse == InitParse /\ [][NextParse]_vars

\* extract, compute_fingerprint and the runner's Execute applied to every
\* string of the bounded set and every page response.
InitPanic ==
    InitPure /\ ret \in {[op |-> "input", input |-> s, response |-> r] :
                         s \in Utf8Strings, r \in Responses}

NextPanic ==
    \/ Extract
    \/ ComputeFingerprint
    \/ \E debug \in BOOLEAN, fails \in BOOLEAN : ExecuteAction(debug, fails)

SpecPanic == InitPanic /\ [][NextPanic]_vars

\* element_list applied to every cache of one element of the bounded set.
InitDisplay == InitPure /\ ret \in {[op |-> "input", input |-> <<el>>] : el \in DisplayElements}

NextDisplay == ElementList

SpecDisplay == InitDisplay /\ [][NextDisplay]_vars

\* The MCP server: no browser at first; the tools are called one at a time,
\* and the page of the current tab changes between the calls.
InitMcp ==
    /\ kind = "EokaServer"
    /\ site \in Sites
    /\ dom = <<>>
    /\ elements = <<>>
    /\ overlays = 0
    /\ last = Returned("launch", -1, Ok(FALSE, NoNode))
    /\ server = NoServer
    /\ ret = NoValue
    /\ pc = "idle"

NextMcp ==
    \/ \E F \in FaultsAt({"launch", "goto", "title"}) : Mcp_navigate(F)
    \/ \E F \in FaultsAt({"observe"}) : Mcp_observe(F)
    \/ \E idx \in Indices, F \in FaultsAt({"launch", "observe", "act", "reobserve", "retry"}) :
           Mcp_click(idx, F)
    \/ \E idx \in Indices, F \in FaultsAt({"launch", "observe", "act", "reobserve", "retry"}) :
           Mcp_fill(idx, F)
    \/ \E idx \in Indices, val \in OptionValues, F \in FaultsAt({"observe", "act"}) :
           Mcp_select(idx, val, F)
    \/ \E F \in FaultsAt({"close"}) : Mcp_close(F)
    \/ \E n \in Nids, pos \in 1..MaxDom : server.tab /\ PageInsert(n, pos)
    \/ \E pos \in 1..MaxDom : server.tab /\ PageRemove(pos)

SpecMcp == InitMcp /\ [][NextMcp]_vars

\* The text computation of OBSERVE_JS applied to every text of the bounded set.
InitText == InitPure /\ ret \in {[op |-> "input", input |-> i] : i \in TextInputs}

NextText == EmitText

SpecText == InitText /\ [][NextText]_vars

\* The tab tools of the MCP server on a launched browser that has no tab yet.
InitTabs ==
    /\ kind = "EokaServer"
    /\ site = 1
    /\ dom = <<>>
    /\ elements = <<>>
    /\ overlays = 0
    /\ last = Returned("launch", -1, Ok(FALSE, NoNode))
    /\ server = NoTabs
    /\ ret = NoValue
    /\ pc = "idle"

NextTabs ==
    \/ \E F \in {"none", "goto", "new_page", "title"} : Tab_navigate(F)
    \/ \E F \in {"none", "new_page", "activate", "title"} : Tab_new_tab(F)
    \/ \E id \in TabIds, F \in {"none", "activate", "title"} : Tab_switch_tab(id, F)
    \/ \E id \in TabIds, F \in {"none", "close_tab", "activate"} : Tab_close_tab(id, F)

SpecTabs == InitTabs /\ [][NextTabs]_vars

\* A run of every config of the bounded set, validated or built directly.
InitRunner == InitPure /\ ret \in {RunFrame(r) : r \in RetryAttempts}

NextRunner ==
    \/ \E outcome \in RunOnceOutcomes, actions \in 0..MaxActions : Runner_attempt(outcome, actions)
    \/ Runner_return

SpecRunner == InitRunner /\ [][NextRunner]_vars

\* substitute applied to every template and parameter setup of the bounded set.
InitParams ==
    InitPure /\ ret \in {[op |-> "input", template |-> t, cfg |-> c] :
                         t \in Templates, c \in ParamSetups}

NextParams == Substitute

SpecParams == InitParams /\ [][NextParams]_vars

InitLinks ==
    /\ InitPure
    /\ \E body \in Bodies, allow \in AllowLists :
          ret = [op |-> "input", body |-> body, allow |-> allow]

NextLinks == ExtractFirstLink

SpecLinks == InitLinks /\ [][NextLinks]_vars

InitRace ==
    /\ kind = "EokaServer"
    /\ site = 1
    /\ dom = <<>>
    /\ elements = <<>>
    /\ overlays = 0
    /\ last = Returned("launch", -1, Ok(FALSE, NoNode))
    /\ server = RaceNoState
    /\ pc = [h \in Handlers |-> RaceIdle]
    /\ ret = [calls |-> 0, out |-> [h \in Handlers |-> RaceOut("none", "none")]]

NextRace ==
    \E h \in Handlers :
        \/ \E tool \in EnsuringTools, launched \in BOOLEAN :
              Race_ensure_browser(h, tool, launched)
        \/ \E outcome \in {"ok", "err", "transport"} : Race_locked(h, outcome)
        \/ Race_check_transport_err(h)
        \/ \E closed \in BOOLEAN : Race_close(h, closed)
        \/ \E tool \in LockingTools, done \in BOOLEAN :
              Race_locking_tool(h, tool, done)

SpecRace == InitRace /\ [][NextRace]_vars

\* An EokaServer whose navigate opened the first tab.
InitBatch ==
    /\ kind = "EokaServer"
    /\ site \in Sites
    /\ dom \in LoadablePages
    /\ elements = <<>>
    /\ overlays = 0
    /\ last = Returned("launch", -1, Ok(FALSE, NoNode))
    /\ server = [up |-> TRUE, unhealthy |-> FALSE, tab |-> TRUE, gen |-> 1]
    /\ ret = NoValue
    /\ pc = "idle"

NextBatch ==
    \/ \E actions \in BatchRequests, fault \in BatchFaults : Mcp_batch(actions, fault)
    \/ \E F \in FaultsAt({"observe"}) : Mcp_observe(F)
    \/ \E idx \in Indices, F \in FaultsAt({"act"}) : Mcp_click(idx, F)

SpecBatch == InitBatch /\ [][NextBatch]_vars

InitLock ==
    /\ kind = "EokaServer"
    /\ site = 1
    /\ dom = <<>>
    /\ elements = <<>>
    /\ overlays = 0
    /\ last = Returned("launch", -1, Ok(FALSE, NoNode))
    /\ server = LockFree
    /\ pc = [h \in Handlers |-> LockAt("idle", "none")]
    /\ ret = [h \in Handlers |-> RaceOut("none", "none")]

NextLock ==
    \E h \in Handlers :
        \/ \E tool \in LockTools : Lock_call(h, tool)
        \/ Lock_acquire(h)
        \/ LockHolderStep(h)

SpecLock == InitLock /\ [][NextLock]_vars

\* The holder of the guard is never suspended for good: the page calls it
\* awaits return or time out.
SpecLockFair == SpecLock /\ \A h \in Handlers : WF_vars(LockHolderStep(h))

InitLabels ==
    /\ InitPure
    /\ \E els \in LabelInputs, view \in Viewports :
          ret = [op |-> "input", els |-> els, view |-> view]

NextLabels == InjectLabels

SpecLabels == InitLabels /\ [][NextLabels]_vars

\* ================================================================== claims
IndexOps == {"click", "fill", "select", "hover", "scroll_to", "click_and_wait"}
NavOps == {"goto", "back", "forward", "reload", "spa_navigate", "history_go"}

\* The step is a call of one of `ops` on the object of kind k.
Called(k, ops) == kind = k /\ last'.op \in ops

\* C1 (as stated): every Session action called with index i either acts on
\* the DOM node that was observed at index i or does not act at all.  Stated
\* for the elements whose selector resolved to their own node when they were
\* observed (C8 is about the others), so that a violation is a selector that
\* came to resolve to another node after the observation.
C1_ActsOnObservedNodeOrFails ==
    [][(Called("Session", IndexOps) /\ last'.acted # NoNode)
        => /\ last'.index < Len(elements)
           /\ LET el == elements[last'.index + 1] IN
                  el.resolved = el.node => last'.acted = el.node]_vars

\* Indices (0-based) of `fresh` whose fingerprint is fp.
SameFingerprint(fresh, fp) ==
    {j \in 0..(Len(fresh) - 1) : fresh[j + 1].fingerprint = fp}

\* The step is a Session action on a cached index whose selector no longer
\* resolves on the page.
StaleCall ==
    /\ Called("Session", IndexOps)
    /\ last'.index < Len(elements)
    /\ QuerySelector(dom, elements[last'.index + 1].selector) = NoNode

\* C2 (as stated), for the calls whose re-observation completes: the action
\* fails and dispatches nothing; the error names j when the new observation
\* has the fingerprint at an index j other than i, and says "no longer
\* exists" otherwise.
C2_MovedOnlyToOtherIndex ==
    [][(StaleCall /\ last'.err # "Cdp")
        => LET i == last'.index
               J == SameFingerprint(observe(dom), elements[i + 1].fingerprint) \ {i}
           IN  /\ ~last'.ok /\ ~last'.sent /\ last'.acted = NoNode
               /\ IF J # {} THEN last'.msg = "moved" /\ last'.moved \in J
                  ELSE last'.msg = "no longer exists"]_vars

\* C2 witness: a stale call was answered "moved to [i]" with i the index asked for.
C2_Witness ==
    /\ kind = "Session"
    /\ last.op \in IndexOps
    /\ last.msg = "moved"
    /\ last.moved = last.index

C4_NavigationEmptiesCache ==
    (last.op \in NavOps /\ last.ok) => elements = <<>>

\* C4 witness: spa_navigate succeeded on a document that has elements.
C4_Witness == last.op = "spa_navigate" /\ last.ok /\ dom # <<>>

\* C5 (as stated): fill and hover leave the cache exactly as it was.
C5_FillHoverKeepCache ==
    [][last'.op \in {"fill", "hover"} => elements' = elements]_vars

\* C5 (amended): fill and hover leave the cache as it was whenever they
\* succeed, always on an AgentPage, and on a Session unless the call failed
\* as stale ("moved" / "no longer exists"), in which case the cache holds the
\* re-observation.
C5_FillHoverKeepCacheUnlessStale ==
    [][last'.op \in {"fill", "hover"}
        => IF kind = "Session" /\ last'.msg \in {"moved", "no longer exists"}
           THEN ~last'.ok /\ elements' = observe(dom)
           ELSE elements' = elements]_vars

\* C5 witness: a Session fill succeeded and the cache still has elements.
C5_Witness == kind = "Session" /\ last.op = "fill" /\ last.ok /\ elements # <<>>

\* C6 (as stated, at the capture step): when the capture fails after the
\* overlay container was injected, no overlay container is left on the page
\* when the error is returned.
C6_OverlayRemovedOnFailure ==
    (last.op = "screenshot" /\ last.msg = "capture failed") => overlays = 0

\* C7 (as stated): whenever screenshot() returns successfully the page holds
\* no overlay container.
C7_NoOverlayAfterScreenshot ==
    (last.op = "screenshot" /\ last.ok) => overlays = 0

\* C8 (as stated): right after an observation, querySelector of every
\* element's selector returns the node the element was produced from.
C8_SelectorResolvesToOwnNode ==
    (last.op = "observe" /\ last.ok)
        => \A i \in 1..Len(elements) :
              QuerySelector(dom, elements[i].selector) = elements[i].node

\* C9: the element at position i of an observation has index i, and no two
\* elements of it have the same selector.
C9_DenseIndicesDistinctSelectors ==
    /\ \A i \in 1..Len(elements) : elements[i].index = i - 1
    /\ \A i, j \in 1..Len(elements) :
          i # j => elements[i].selector # elements[j].selector

\* C9 witness: an observation of a page with two visible nodes sharing one
\* selector returned (one element for the two).
C9_Witness ==
    /\ last.op = "observe" /\ last.ok
    /\ dom = <<4, 5>>
    /\ Len(elements) = 1

\* The step is an index-based action whose index is out of the cache's range.
OutOfRangeCall ==
    /\ last'.op \in IndexOps
    /\ last'.index >= Len(elements)

AsciiLower(t) == IF t = "PASSWORD" THEN "password" ELSE t

\* Node n is an <input> whose type is password.
IsPasswordInput(n) == n.tag = "input" /\ AsciiLower(n.type) = "password"

\* C20 (as stated): no element an observation produced for a password input
\* carries a value, however the type attribute of the input is written.
C20_PasswordValueNeverEmitted ==
    \A i \in 1..Len(elements) :
        IsPasswordInput(PageNodes[elements[i].node]) => elements[i].value = ""


\* ------------------------------------------------------------------- C17
\* C17: a successful observe_diff replaces the cache with a new observation
\* and returns added = the indices, in order, of exactly the new elements
\* whose selector no element of the prior cache had, removed = the number of
\* prior elements whose selector no new element has, and total = the length
\* of the new observation.
C17_ObserveDiff ==
    [][(last'.op = "observe_diff" /\ last'.ok)
        => LET old == elements
               new == elements'
               A == {i \in 0..(Len(new) - 1) :
                        \A j \in 1..Len(old) : old[j].selector # new[i + 1].selector}
           IN  /\ new = observe(dom)
               /\ {ret'.added[k] : k \in 1..Len(ret'.added)} = A
               /\ Len(ret'.added) = Cardinality(A)
               /\ \A k \in 1..(Len(ret'.added) - 1) : ret'.added[k] < ret'.added[k + 1]
               /\ ret'.removed =
                     Cardinality({j \in 1..Len(old) :
                        \A i \in 1..Len(new) : new[i].selector # old[j].selector})
               /\ ret'.total = Len(new)]_vars

\* C17 witness: an observe_diff returned with elements added and removed.
C17_Witness ==
    /\ last.op = "observe_diff" /\ last.ok
    /\ ret.op = "observe_diff"
    /\ ret.removed > 0
    /\ ret.added # <<>>
    /\ ret.total = Len(elements)


\* ------------------------------------------------------------------- C19
\* C19: wait_for_stable always terminates and returns success, whatever the
\* idle wait returned (the network going idle, its timeout, or an error).
C19_WaitForStableReturnsOk ==
    (pc # "idle") ~> (pc = "idle" /\ last.op = "wait_for_stable" /\ last.ok)

\* C19 witness: wait_for_stable returned Ok after the idle wait timed out.
C19_Witness ==
    /\ pc = "idle"
    /\ last.op = "wait_for_stable" /\ last.ok
    /\ ret.op = "wait_for_stable" /\ ret.network = "timeout"


\* ------------------------------------------------------------------- C16
\* The string is one or more decimal digits.
IsDigitString(t) == t # <<>> /\ \A k \in 1..Len(t) : t[k] \in TargetDigits

\* The digit string exceeds usize::MAX.
ExceedsUsize(t) == \E k \in 1..Len(t) : t[k] = "N20"

\* The Live pattern the claim gives a trimmed string that is not an index.
ClaimedLive(t) ==
    IF t # <<>> /\ Head(t) \in TargetPrefixes
    THEN [target |-> "Live", kind |-> Head(t), value |-> Tail(t)]
    ELSE [target |-> "Live", kind |-> "text:", value |-> t]

C15_NoPanic == ret.op \in {"extract", "compute_fingerprint", "execute"} => ret.outcome # "panic"

\* extract has panicked while building its error message for a null result.
C15_Witness ==
    /\ ret.op = "extract"
    /\ ret.response.kind = "null"
    /\ ret.input = [ascii |-> 59, tail |-> <<2>>]
    /\ ret.outcome = "panic"


\* The fields as Display shows them: an input type of "text" and a role that
\* repeats the tag are shown like an absent one.
Shown(el) ==
    [el EXCEPT !.input_type = IF el.input_type = "text" THEN None ELSE el.input_type,
               !.role = IF redundant(el) THEN None ELSE el.role]

Plain(el) == el.text \in PlainStrings

\* C18 (as stated): the element_list text determines the cache: no other
\* cache, differing in index, tag, input type, checked flag, text, value,
\* placeholder or role, renders to the same text.
C18_ElementListDetermines ==
    ret.op = "element_list" =>
        \A e2 \in DisplayElements : element_list(<<e2>>) = ret.out => <<e2>> = ret.input

\* C18 (amended): for elements whose strings hold no double quote and no line
\* break, the element_list text determines index, tag, checked flag, text,
\* value and placeholder, and determines input type and role up to what
\* Display leaves out (the type "text", a role that repeats the tag).
C18_ElementListDeterminesShown ==
    (ret.op = "element_list" /\ Plain(ret.input[1])) =>
        \A e2 \in DisplayElements :
            (Plain(e2) /\ element_list(<<e2>>) = ret.out) => Shown(e2) = Shown(ret.input[1])

\* A <button role="button"> has been rendered: its role is left out.
C18_Witness ==
    /\ ret.op = "element_list"
    /\ ret.input[1].role = "button"
    /\ ret.input[1].tag = "button"
    /\ ret.input[1].checked
    /\ ret.out = "[0] <button> [checked] \"Go\"\n"


McpTools == {"navigate", "observe", "click", "fill", "select", "close"}

RetryMessages == {"not found", "not visible"}

\* C11: the MCP click and fill tools retry at most once: they issue at most
\* two page actions and re-observe at most once; the second action and the
\* re-observation happen only after a first error saying "not found" or "not
\* visible"; a failed retry, or any other first error, is returned with no
\* further attempt.
C11_RetryAtMostOnce ==
    ret.op \in {"click", "fill"} =>
        /\ ret.attempts <= 2
        /\ ret.reobserved <= 1
        /\ (ret.attempts = 2 \/ ret.reobserved = 1) => ret.first \in RetryMessages
        /\ ret.attempts = 2 => ret.reobserved = 1
        /\ ret.first \notin RetryMessages \cup {""} => (ret.attempts = 1 /\ ~ret.ok)
        /\ (ret.attempts = 2 /\ ret.acted = NoNode) => ~ret.ok

\* A click whose first attempt failed was repeated after one re-observation,
\* and the repeated click succeeded.
C11_Witness ==
    /\ ret.op = "click"
    /\ ret.attempts = 2
    /\ ret.reobserved = 1
    /\ ret.ok

\* C12: the MCP click/fill retry is sound: a retried action that acts, acts
\* on the element the caller's index named when the call resolved it, never
\* on another element that has the index after the re-observation.
C12_RetryActsOnNamedElement ==
    (ret.op \in {"click", "fill"} /\ ret.attempts = 2 /\ ret.acted # NoNode)
        => ret.acted = ret.named

\* A retried click has acted on a node other than the one the index named.
C12_Witness ==
    /\ ret.op = "click"
    /\ ret.attempts = 2
    /\ ret.ok
    /\ ret.acted # ret.named

\* C13: after a tool call returned an error of the transport class, the
\* browser state is marked unhealthy.
C13_TransportErrorMarksUnhealthy ==
    (ret.op \in McpTools /\ ret.transport /\ server.up) => server.unhealthy

\* select has returned a transport error and the state is not marked.
C13_Witness ==
    /\ ret.op = "select"
    /\ ret.transport
    /\ server.up
    /\ ~server.unhealthy

\* C14: an unhealthy browser state stays unhealthy as long as it is the
\* server's state, and a tool call that enters ensure_browser while the state
\* is unhealthy closes that browser, launches a fresh one (or leaves no
\* browser when the launch fails) and uses no tab of the closed browser.
C14_UnhealthyUntilReplaced ==
    [][(server.up /\ server.unhealthy) =>
          /\ (server'.up /\ server'.gen = server.gen) => server'.unhealthy
          /\ (ret' # ret /\ ret'.entered) =>
                /\ ret'.closed
                /\ ret'.tabgen # server.gen
                /\ server'.up => server'.gen = server.gen + 1
                /\ ~server'.up => ~ret'.ok]_vars

\* A tool call has replaced an unhealthy browser by a fresh one.
C14_Witness ==
    /\ ret.op \in {"navigate", "click", "fill"}
    /\ ret.entered
    /\ ret.closed
    /\ server.up
    /\ ~server.unhealthy
    /\ server.gen = 2


C22_CloseTabKeepsLastTab ==
    [][ret'.op = "close_tab" =>
          /\ Cardinality(server.tabs) <= 1 =>
                (~ret'.ok /\ server'.tabs = server.tabs /\ server'.current = server.current)
          /\ server.tabs # {} => server'.tabs # {}]_vars

\* close_tab was refused for the only tab.
C22_Witness ==
    /\ ret.op = "close_tab"
    /\ ~ret.ok
    /\ server.tabs = {ret.id}
    /\ server.current = ret.id

\* ------------------------------------------------------------------- C30
\* C30: current_tab_id is unset or names a tab present in the tabs map,
\* after every sequence of navigate, new_tab, switch_tab and close_tab calls,
\* failing ones included; so no tool's unwrap of the current tab panics.
C30_CurrentTabIsTracked ==
    /\ server.current = NoTab \/ server.current \in server.tabs
    /\ ret.op \in {"navigate", "new_tab", "switch_tab", "close_tab"} => ~ret.panic

\* close_tab closed the current tab, failed to activate the tab it moved to,
\* and left that tab current.
C30_Witness ==
    /\ ret.op = "close_tab"
    /\ ~ret.ok
    /\ ret.id \notin server.tabs
    /\ server.current \in server.tabs
    /\ server.next > MaxTabIds


\* ------------------------------------------------------------------- C23
RunBounds ==
    /\ ret.started <= ret.max_attempts
    /\ ret.retry # NoRetry => ret.started <= ret.retry
    /\ (ret.retry = NoRetry /\ ret.returned) => ret.started = 1
    /\ (validate(ret.retry) /\ ret.returned) => ret.started >= 1
    /\ ret.succeeded => (ret.returned /\ ret.result.success)
    /\ (ret.returned /\ ret.result.success) => ret.succeeded

\* C23 (as stated): a run executes the config at most retry.attempts times
\* (once without a retry config, at least once for a validated config),
\* returns as soon as an attempt succeeds, and reports retries = attempts
\* started - 1.
C23_RetriesIsStartedMinusOne ==
    ret.op = "run" =>
        /\ RunBounds
        /\ ret.returned => ret.result.retries = ret.started - 1

\* C23 (amended): as stated, with retries = attempts started - 1 whenever an
\* attempt was started; a run that starts none (retry.attempts = 0 in a
\* config that did not pass validation) reports retries 0, no success and no
\* error.
C23_RetriesIsStartedMinusOneIfStarted ==
    ret.op = "run" =>
        /\ RunBounds
        /\ (ret.returned /\ ret.started >= 1) => ret.result.retries = ret.started - 1
        /\ (ret.returned /\ ret.started = 0) =>
              (ret.retry = 0 /\ ret.result = [NoResult EXCEPT !.retries = 0])

\* A run succeeded at its third attempt and reports two retries.
C23_Witness ==
    /\ ret.op = "run"
    /\ ret.returned
    /\ ret.result.success
    /\ ret.started = 3
    /\ ret.result.retries = 2


\* ------------------------------------------------------------------- C24
\* The template with every occurrence of "${" name "}" replaced: by the
\* supplied value if there is one, else by the declared default, else by
\* nothing when the name is declared, and left alone when it is not.
RECURSIVE replace_occurrences(_, _)
replace_occurrences(s, cfg) ==
    IF s = <<>> THEN <<>>
    ELSE IF Len(s) >= 3 /\ s[1] = "${" /\ s[2] \in ParamNames /\ s[3] = "}"
    THEN (IF params_has(cfg, <<s[2]>>) THEN params_get(cfg, <<s[2]>>)
          ELSE IF defs_has(cfg, <<s[2]>>) /\ def_has_default(cfg) THEN <<"D">>
          ELSE IF defs_has(cfg, <<s[2]>>) THEN <<>>
          ELSE SubSeq(s, 1, 3))
         \o replace_occurrences(SubSeq(s, 4, Len(s)), cfg)
    ELSE <<Head(s)>> \o replace_occurrences(Tail(s), cfg)

\* No "${" stands between a "${" and the next "}".
NoNestedOpener(s) ==
    \A i \in 1..Len(s) :
        s[i] = "${" =>
            \A j \in (i + 1)..Len(s) :
                s[j] = "${" => \E k \in (i + 1)..(j - 1) : s[k] = "}"

\* C24 (as stated): when the config parses, every ${name} occurrence in a
\* string is replaced by the supplied value if one was given and otherwise by
\* the declared default.
C24_EveryOccurrenceReplaced ==
    (ret.op = "substitute" /\ ret.res.ok) =>
        ret.res.out = replace_occurrences(ret.template, ret.cfg)

\* C24 (amended): the same for strings in which no "${" stands between a
\* "${" and the next "}": substitute takes the text from a "${" to the next
\* "}" as the name, so an occurrence inside such a span is not replaced.
C24_EveryOccurrenceReplacedUnlessNested ==
    (ret.op = "substitute" /\ ret.res.ok /\ NoNestedOpener(ret.template)) =>
        ret.res.out = replace_occurrences(ret.template, ret.cfg)

\* ${a} was replaced by the supplied value although a default is declared,
\* and ${b} by its supplied value.
C24_Witness ==
    /\ ret.op = "substitute"
    /\ ret.template = <<"${", "a", "}", "${", "b">> 
    /\ ret.cfg = [a |-> TRUE, b |-> TRUE, def |-> "default"]
    /\ ret.res = SubstOk(<<"1", "${", "b">>)


\* ------------------------------------------------------------------- C25
\* C25: whenever a parameter declared required has neither a supplied value
\* nor a default, parsing fails with an error that names the parameter.
C25_RequiredMissingFails ==
    (ret.op = "substitute" /\ ret.cfg.def = "required" /\ ~ret.cfg.a) =>
        (~ret.res.ok /\ ret.res.error = <<"a">>)

\* A string that does not mention the required parameter a was substituted
\* without error although a has neither a value nor a default.
C25_Witness ==
    /\ ret.op = "substitute"
    /\ ret.cfg = [a |-> FALSE, b |-> TRUE, def |-> "required"]
    /\ ret.template = <<"${", "b", "}">>
    /\ ret.res = SubstOk(<<"2">>)


\* ------------------------------------------------------------------- C26
\* The host is the domain itself or ends with a dot followed by the domain.
is_domain_or_subdomain(host, d) ==
    host = d \/ ends_with(host, <<".">> \o d)

\* C26: with a non-empty allow_domains filter, a link returned by
\* extract_first_link has a host that is an allowed domain or a subdomain of
\* one.
C26_ReturnedLinkIsOnAllowedDomain ==
    (ret.op = "extract_first_link" /\ ret.allow # {} /\ ret.res.found) =>
        \E d \in ret.allow : is_domain_or_subdomain(ret.res.link, d)

\* The link on host "ab" is returned under the filter ["b"].
C26_Witness ==
    /\ ret.op = "extract_first_link"
    /\ ret.allow = {<<"b">>}
    /\ ret.body = << <<"a", "a">>, <<"a", "b">> >>
    /\ ret.res = [found |-> TRUE, link |-> <<"a", "b">>]


\* ------------------------------------------------------------------- C27
\* C27: a handler that completed ensure_browser finds the state present when
\* it next locks it, so no list_tabs, new_tab or navigate call ends by
\* unwrapping an absent state.
C27_NoUnwrapOfAbsentState ==
    \A h \in Handlers : ret.out[h].outcome # "panic"

\* navigate of task 1 panicked after task 2's close returned.
C27_Witness ==
    /\ ret.out[1] = RaceOut("navigate", "panic")
    /\ ret.out[2] = RaceOut("close", "ok")
    /\ ~server.up


\* ------------------------------------------------------------------- C28
\* The Session calls that change the page when they take effect.
EffectOps ==
    {"click", "select", "goto", "back", "forward", "spa_navigate", "history_go"}

\* The step is a Session call of EffectOps that took effect on the page.
C28_TookEffect == kind = "Session" /\ last'.op \in EffectOps /\ last'.ok

\* The step leaves a non-empty cache other than the one it started with.
C28_CacheRefilled ==
    kind = "Session" /\ elements' # elements /\ elements' # << >>

\* C28: a Session's cache is non-empty only if no click, select or
\* navigation issued through the Session took effect since the cache was
\* observed: a step in which such a call takes effect ends with an empty
\* cache, and a step that refills the cache stores an observation of the
\* page as it then is.
C28_NonEmptyCachePredatesNoEffect ==
    [][ /\ C28_TookEffect => elements' = << >>
        /\ C28_CacheRefilled =>
              (~C28_TookEffect /\ dom' = dom /\ elements' = observe(dom))
      ]_vars

\* A select through the Session took effect on a page that still has
\* elements, and the cache is empty.
C28_Witness ==
    /\ kind = "Session"
    /\ last.op = "select" /\ last.ok
    /\ observe(dom) # << >>
    /\ elements = << >>


\* ------------------------------------------------------------------- C29
\* In the events of a batch, between a dispatched click and a later index
\* resolution the cache was cleared.
C29_ClearedBetween(events) ==
    \A i \in DOMAIN events : \A j \in DOMAIN events :
        (i < j /\ events[i] = "click" /\ events[j] = "resolve") =>
            \E k \in (i + 1)..(j - 1) : events[k] = "clear"

\* C29: no index is resolved in a cache observed before a click the server
\* has since dispatched: a click tool call that dispatched a click, and a
\* batch that dispatched one, leave the cache empty, and inside a batch no
\* index is resolved after a dispatched click without a clear in between.
C29_NoResolutionAfterClick ==
    /\ (ret.op = "click" /\ ret.acted # NoNode) => elements = << >>
    /\ ret.op = "batch" =>
          /\ C29_ClearedBetween(ret.events)
          /\ (\E i \in DOMAIN ret.events : ret.events[i] = "click") => elements = << >>

\* A batch of two clicks resolved its second index in the cache it had
\* before the first click.
C29_Witness ==
    /\ ret.op = "batch"
    /\ ret.ok
    /\ ret.events = <<"resolve", "click", "resolve", "click", "clear">>


\* ------------------------------------------------------------------- C31
\* C31: no handler waits for the state mutex while it holds it, and every
\* handler that holds the mutex eventually releases it.
C31_NoSelfWaitAndRelease ==
    /\ [](\A h \in Handlers :
            pc[h].at \in {"ensure_wait", "wait", "err_wait"} => server.owner # h)
    /\ \A h \in Handlers : (server.owner = h) ~> (server.owner # h)

\* A click failed with a transport error and waits, without the guard, for
\* the lock of check_transport_err while the other task holds it.
C31_Witness ==
    /\ pc[1] = LockAt("err_wait", "click")
    /\ server.owner = 2


\* ------------------------------------------------------------------- C32
\* C32: the server has at most one live browser at any time: calls that
\* arrive together launch one browser, and a relaunch or a close shuts the
\* previous browser down before another one is launched.
C32_AtMostOneLiveBrowser ==
    /\ server.live <= 1
    /\ server.up <=> server.live = 1

\* Two clicks that arrived together both passed ensure_browser, and one
\* browser is live.
C32_Witness ==
    /\ pc[1] = LockAt("wait", "click")
    /\ pc[2] = LockAt("wait", "click")
    /\ ret[1] = RaceOut("none", "none")
    /\ ret[2] = RaceOut("none", "none")
    /\ server.live = 1


\* ------------------------------------------------------------------- C33
\* The step is a Session action that failed with "moved to [j]".
C33_Moved == kind = "Session" /\ last'.msg = "moved"

\* C33: when a Session action fails with "moved to [j]", the cache it leaves
\* is the observation taken during recovery, j is an index of that cache, and
\* element j has the fingerprint of the element the caller's index named.
C33_MovedNamesTheSameFingerprint ==
    [][ C33_Moved =>
          /\ elements' = observe(dom)
          /\ last'.moved \in 0..(Len(elements') - 1)
          /\ last'.index < Len(elements)
          /\ elements'[last'.moved + 1].fingerprint =
                 elements[last'.index + 1].fingerprint
      ]_vars

\* A Session action was refused because its element moved to another index
\* of the cache now in place.
C33_Witness ==
    /\ kind = "Session"
    /\ last.msg = "moved"
    /\ last.moved # last.index
    /\ last.moved \in 0..(Len(elements) - 1)
    /\ elements = observe(dom)


\* ------------------------------------------------------------------- C34
\* The candidates of element k that overlap no label placed before it.
C34_Free(k) ==
    { j \in 1..4 :
        ~overlaps(candidates(ret.els[k], k - 1, ret.view)[j], k - 1,
                  SubSeq(ret.placed, 1, k - 1)) }

C34_First(k) == CHOOSE j \in C34_Free(k) : \A m \in C34_Free(k) : j <= m

C34_At(k, j) ==
    <<ret.placed[k][1], ret.placed[k][2]>> = candidates(ret.els[k], k - 1, ret.view)[j]

\* C34: each label is placed at the first of the four candidates, in the
\* order top-left outside, top-right outside, bottom-left outside, inside
\* top-left, each clamped to the viewport, that overlaps no label placed for
\* an earlier element.
C34_LabelAtFirstFreeCandidate ==
    ret.op = "labels" =>
        \A k \in 1..Len(ret.els) : C34_Free(k) # {} /\ C34_At(k, C34_First(k))

\* The same, with the label at the first candidate when all four overlap.
C34_LabelAtFirstFreeCandidateOrFirst ==
    ret.op = "labels" =>
        \A k \in 1..Len(ret.els) :
            IF C34_Free(k) # {} THEN C34_At(k, C34_First(k)) ELSE C34_At(k, 1)

\* A label went to a later candidate because the earlier ones overlapped
\* labels already placed.
C34_Witness ==
    /\ ret.op = "labels"
    /\ \E k \in 1..Len(ret.els) :
          /\ C34_Free(k) # {}
          /\ C34_First(k) = 3
          /\ C34_At(k, 3)
          /\ ~C34_At(k, 1)

====
